---- MODULE Spec2Model ----
(***************************************************************************)
(* Model of yt-transcribe.py: the caption resolution pipeline              *)
(* (fetch_transcript, driven by main) and the two renderers (write_txt,    *)
(* write_docx) with the caption normalizer they share.                     *)
(*                                                                         *)
(* Text is modelled as a sequence of one-character strings, so that        *)
(* strip(), the regular expressions and join/split act on characters.      *)
(***************************************************************************)
EXTENDS Integers, Sequences, FiniteSets, TLC

VARIABLES
    \* ---- fetch_transcript / main --------------------------------------
    args,             \* the parsed command line handed to fetch_transcript
    pc,               \* position of the run inside main / fetch_transcript
    attempt,          \* loop variable of the list retry loop
    transcripts,      \* result of api.list, NoList while unset
    search_idx,       \* position in search_order
    chosen,           \* the selected track, NoTrack while unset
    chosen_kind,      \* "generated" / "manual", "none" while unset
    base_entries,     \* entries fetched from the chosen track
    translated_entries, \* entries fetched from the translated track
    translated_to,    \* local translated_to, None while unset
    result,           \* the TranscriptSelection returned, NoSelection while unset
    raised,           \* the exception propagating out of the current frame
    exit_code,        \* value returned by main, -1 while running
    calls,            \* log of the calls made to the external capabilities
    sleeps,           \* delays handed to time.sleep, in tenths of a second
    warnings,         \* number of logging.warning calls
    file_written,     \* TRUE once the writer has created or modified the output file
    output_path,      \* name of the output file, empty until main has computed it
    dir_made,         \* TRUE once main has created the output directory
    \* ---- write_txt / write_docx ---------------------------------------
    r_args,           \* the arguments both writers are called with
    r_pc,             \* position of the rendering run
    r_i,              \* index of the next entry of transcript.entries
    lines,            \* write_txt: the list "lines"
    content,          \* write_txt: the text handed to path.write_text
    paragraphs,       \* write_docx: the paragraphs of the document body
    previous_blank,   \* write_docx: the flag previous_blank
    saved,            \* write_docx: TRUE once document.save has run
    \* ---- calls of the pure helper functions ---------------------------
    f_arg,            \* the argument the function is called with
    f_ret,            \* the value it returned (or the error it raised)
    f_again,          \* the value returned when called again on f_ret
    f_pc              \* position of the call

fetchVars == <<args, pc, attempt, transcripts, search_idx, chosen, chosen_kind,
               base_entries, translated_entries, translated_to, result, raised, exit_code, calls,
               sleeps, warnings, file_written, output_path, dir_made>>

renderVars == <<r_args, r_pc, r_i, lines, content, paragraphs, previous_blank, saved>>

pureVars == <<f_arg, f_ret, f_again, f_pc>>

vars == <<fetchVars, renderVars, pureVars>>

-----------------------------------------------------------------------------
(* Bounds *)
MaxRetries == 3
MaxEntries == 3

-----------------------------------------------------------------------------
(* Characters and strings *)

\* Python's None, kept apart from every string (no string contains this token)
None == <<"<None>">>

\* characters matched by \s and removed by str.strip()
Whitespace == {" ", "\n", "\t"}

RECURSIVE LStrip(_)
LStrip(s) ==
    IF s = <<>> THEN s
    ELSE IF Head(s) \in Whitespace THEN LStrip(Tail(s)) ELSE s

RECURSIVE RStrip(_)
RStrip(s) ==
    IF s = <<>> THEN s
    ELSE IF s[Len(s)] \in Whitespace THEN RStrip(SubSeq(s, 1, Len(s) - 1)) ELSE s

\* str.strip()
Strip(s) == RStrip(LStrip(s))

\* language codes
En == <<"e", "n">>
De == <<"d", "e">>
EnUS == <<"e", "n", "-", "U", "S">>
EnGB == <<"e", "n", "-", "G", "B">>

DEFAULT_LANG_PREF == En \o <<",">> \o EnUS \o <<",">> \o EnGB

\* str.split(sep): the pieces between separators, empty pieces included;
\* cur is put before the first piece
Split(s, sep, cur) ==
    LET at == SelectSeq([i \in DOMAIN s |-> i], LAMBDA i : s[i] = sep)
        n == Len(at)
        piece(k) == SubSeq(s, IF k = 1 THEN 1 ELSE at[k - 1] + 1,
                              IF k = n + 1 THEN Len(s) ELSE at[k] - 1)
    IN  [k \in 1..(n + 1) |-> IF k = 1 THEN cur \o piece(k) ELSE piece(k)]

expand_language_list(lang_option) ==
    IF lang_option = <<>> \/ lang_option = None THEN <<>>
    ELSE LET codes == [i \in DOMAIN Split(lang_option, ",", <<>>) |->
                          Strip(Split(lang_option, ",", <<>>)[i])]
         IN  SelectSeq(codes, LAMBDA code : code # <<>>)

\* list(dict.fromkeys(languages)): first occurrences, in order
RECURSIVE DedupeKeys(_)
DedupeKeys(s) ==
    IF s = <<>> THEN <<>>
    ELSE LET d == DedupeKeys(SubSeq(s, 1, Len(s) - 1))
             last == s[Len(s)]
         IN  IF \E i \in 1..Len(d) : d[i] = last THEN d ELSE Append(d, last)

language_preferences(languages) ==
    IF languages # <<>> THEN DedupeKeys(languages)
    ELSE expand_language_list(DEFAULT_LANG_PREF)

-----------------------------------------------------------------------------
(* Caption normalizer *)

UpperCase == <<"A", "C", "E", "G", "H", "I", "L", "M", "N", "P", "R", "S", "T", "U", "B", "D", "W">>
LowerCase == <<"a", "c", "e", "g", "h", "i", "l", "m", "n", "p", "r", "s", "t", "u", "b", "d", "w">>

\* case folding done by re.IGNORECASE
Lower(c) ==
    IF \E i \in DOMAIN UpperCase : UpperCase[i] = c
    THEN LowerCase[CHOOSE i \in DOMAIN UpperCase : UpperCase[i] = c]
    ELSE c

STAGE_DIRECTIONS ==
    { <<"m", "u", "s", "i", "c">>,
      <<"a", "p", "p", "l", "a", "u", "s", "e">>,
      <<"l", "a", "u", "g", "h", "t", "e", "r">>,
      <<"s", "i", "l", "e", "n", "c", "e">>,
      <<"i", "n", "a", "u", "d", "i", "b", "l", "e">> }

\* length of the match of STAGE_DIRECTION_PATTERN that starts at position i
\* of s, 0 when there is none
MatchLenAt(s, i) ==
    IF i <= Len(s) /\ s[i] = "["
       /\ \E w \in STAGE_DIRECTIONS :
             /\ i + Len(w) + 1 <= Len(s)
             /\ \A k \in 1..Len(w) : Lower(s[i + k]) = w[k]
             /\ s[i + Len(w) + 1] = "]"
    THEN 2 + Len(CHOOSE w \in STAGE_DIRECTIONS :
                    /\ i + Len(w) + 1 <= Len(s)
                    /\ \A k \in 1..Len(w) : Lower(s[i + k]) = w[k]
                    /\ s[i + Len(w) + 1] = "]")
    ELSE 0

\* STAGE_DIRECTION_PATTERN.fullmatch(s)
FullMatch(s) == s # <<>> /\ MatchLenAt(s, 1) = Len(s)

\* STAGE_DIRECTION_PATTERN.sub("", s): one left-to-right pass that deletes
\* the non-overlapping matches
RECURSIVE SubStageDirections(_, _)
SubStageDirections(s, i) ==
    IF i > Len(s) THEN <<>>
    ELSE IF MatchLenAt(s, i) > 0 THEN SubStageDirections(s, i + MatchLenAt(s, i))
    ELSE <<s[i]>> \o SubStageDirections(s, i + 1)

\* the characters of s at the positions where keep is TRUE
KeepAt(s, keep) ==
    LET marked == [i \in DOMAIN s |-> <<s[i], keep[i]>>]
        kept == SelectSeq(marked, LAMBDA m : m[2])
    IN  [i \in DOMAIN kept |-> kept[i][1]]

\* unicodedata.normalize("NFC", s): a base letter followed by a combining
\* mark becomes the precomposed letter
NFC(s) ==
    LET composed == [i \in DOMAIN s |->
                        IF s[i] = "e" /\ i < Len(s) /\ s[i + 1] = "<combining-acute>"
                        THEN "<e-acute>" ELSE s[i]]
    IN  KeepAt(composed, [i \in DOMAIN s |->
                            ~(i > 1 /\ s[i] = "<combining-acute>" /\ s[i - 1] = "e")])

\* s.replace("\n", " ")
ReplaceNewlines(s) == [i \in DOMAIN s |-> IF s[i] = "\n" THEN " " ELSE s[i]]

\* re.sub(r"\s+", " ", s)
CollapseWhitespace(s) ==
    KeepAt([i \in DOMAIN s |-> IF s[i] \in Whitespace THEN " " ELSE s[i]],
           [i \in DOMAIN s |->
               s[i] \notin Whitespace \/ i = 1 \/ s[i - 1] \notin Whitespace])

Punctuation == {",", ".", "!", "?", ";", ":"}

\* re.sub(r"\s+([,.!?;:])", r"\1", s)
TightenPunctuation(s) ==
    KeepAt(s, [i \in DOMAIN s |->
        ~(/\ s[i] \in Whitespace
          /\ \E j \in (i + 1)..Len(s) : /\ s[j] \in Punctuation
                                        /\ \A k \in (i + 1)..(j - 1) : s[k] \in Whitespace)])

clean_caption_text(text, keep_tags) ==
    IF text = None THEN <<>>
    ELSE LET normalized == NFC(text)
             cleaned == IF ~keep_tags THEN SubStageDirections(normalized, 1)
                        ELSE normalized
         IN  Strip(TightenPunctuation(CollapseWhitespace(ReplaceNewlines(cleaned))))

DecimalDigits == <<"0", "1", "2", "3", "4", "5", "6", "7", "8", "9">>

\* decimal digits of a natural number
RECURSIVE Digits(_)
Digits(n) ==
    IF n < 10 THEN <<DecimalDigits[n + 1]>>
    ELSE Digits(n \div 10) \o <<DecimalDigits[(n % 10) + 1]>>

\* the format specification 02d
Pad2(n) == IF n < 10 THEN <<"0">> \o Digits(n) ELSE Digits(n)

\* int(seconds) for a time given in tenths of a second
IntSeconds(tenths) == IF tenths >= 0 THEN tenths \div 10 ELSE -((-tenths) \div 10)

\* format_timestamp with the minutes taken from the whole time
format_timestamp_MinutesOfTotal(tenths) ==
    LET seconds == IF tenths < 0 THEN 0 ELSE tenths
        total_seconds == IntSeconds(seconds)
        hours == total_seconds \div 3600
        minutes == total_seconds \div 60
        secs == total_seconds % 60
    IN  IF hours # 0
        THEN Pad2(hours) \o <<":">> \o Pad2(minutes) \o <<":">> \o Pad2(secs)
        ELSE Pad2(minutes) \o <<":">> \o Pad2(secs)

\* format_timestamp, the argument in tenths of a second
format_timestamp(tenths) ==
    LET seconds == IF tenths < 0 THEN 0 ELSE tenths
        total_seconds == IntSeconds(seconds)
        hours == total_seconds \div 3600
        remainder == total_seconds % 3600
        minutes == remainder \div 60
        secs == remainder % 60
    IN  IF hours # 0
        THEN Pad2(hours) \o <<":">> \o Pad2(minutes) \o <<":">> \o Pad2(secs)
        ELSE Pad2(minutes) \o <<":">> \o Pad2(secs)

-----------------------------------------------------------------------------
(* The external captions capability (youtube_transcript_api) *)

\* exception classes of the library; all derive from YouTubeTranscriptApiException
ApiExceptions == {"VideoUnavailable", "TranscriptsDisabled", "NoTranscriptFound",
                  "NotTranslatable", "TranslationLanguageNotAvailable",
                  "YouTubeRequestFailed"}

\* classes deriving from Exception: the library's and any other (network, OS)
Exceptions == ApiExceptions \cup {"ConnectionError"}

\* what each blocking call of the library can raise: its own failures, a
\* failure below the library (network), and the operator's interrupt, which
\* is no Exception
ListRaises == {"VideoUnavailable", "TranscriptsDisabled", "YouTubeRequestFailed",
               "ConnectionError", "KeyboardInterrupt"}
FetchRaises == {"YouTubeRequestFailed", "ConnectionError", "KeyboardInterrupt"}
TranslateRaises == {"NotTranslatable", "TranslationLanguageNotAvailable",
                    "YouTubeRequestFailed", "ConnectionError", "KeyboardInterrupt"}

Call(op, outcome) == [op |-> op, outcome |-> outcome]

NoExc == [class |-> "none", msg |-> "none"]
CliError(m) == [class |-> "CliError", msg |-> m]
\* an exception nothing has caught yet; msg names the step that raised it
Propagate(c) == [class |-> c, msg |-> pc]

\* what api.list can return: the languages with a manual / a generated track
TrackLists ==
    { [manual |-> {}, generated |-> {}],
      [manual |-> {En}, generated |-> {}],
      [manual |-> {}, generated |-> {De}],
      [manual |-> {En}, generated |-> {De}],
      [manual |-> {De}, generated |-> {En}],
      [manual |-> {En, De}, generated |-> {En, De}] }

NoList == [manual |-> {None}, generated |-> {None}]
NoTrack == [kind |-> "none", language_code |-> None]

\* find_generated_transcript / find_manually_created_transcript: the track of
\* the first preferred language the category has, NoTrack for NoTranscriptFound
RECURSIVE FindTranscript(_, _, _)
FindTranscript(available, kind, prefs) ==
    IF prefs = <<>> THEN NoTrack
    ELSE IF Head(prefs) \in available
         THEN [kind |-> kind, language_code |-> Head(prefs)]
         ELSE FindTranscript(available, kind, Tail(prefs))

Hi == <<"h", "i">>
Ho == <<"h", "o">>

\* what Transcript.fetch can return: items shaped as mappings or as objects,
\* each with any of the fields text, start, duration
FetchedTranscripts ==
    { <<>>,
      << [shape |-> "dict", data |-> [text |-> Hi, start |-> 3, duration |-> 2]] >>,
      << [shape |-> "obj", data |-> [text |-> Ho]],
         [shape |-> "dict", data |-> [start |-> 5]] >> }

LanguageInputs == { <<>>, <<En>>, <<De, En>>, <<En, En, De>> }
TranslateInputs == { None, <<" ">>, De, <<" ">> \o De }

\* what fetch on a translated track can return
TranslatedTranscripts ==
    { <<>>,
      << [shape |-> "obj", data |-> [text |-> Ho, start |-> 3, duration |-> 2]] >> }

-----------------------------------------------------------------------------
(* fetch_transcript *)

Get(data, key, default) == IF key \in DOMAIN data THEN data[key] ELSE default

normalize_item(item) ==
    IF item.shape = "dict"
    THEN [text |-> Get(item.data, "text", <<>>),
          start |-> Get(item.data, "start", 0),
          duration |-> Get(item.data, "duration", 0)]
    ELSE [text |-> Get(item.data, "text", <<>>),
          start |-> Get(item.data, "start", 0),
          duration |-> Get(item.data, "duration", 0)]

normalize_entries(raw_entries) ==
    [i \in DOMAIN raw_entries |-> normalize_item(raw_entries[i])]

NoSelection == [kind |-> "none", source_kind |-> "none", language |-> None,
                translated_to |-> None, entries |-> <<>>]

\* translate_to.strip() if translate_to else None
translation_target(translate_to) ==
    IF translate_to # None /\ translate_to # <<>> THEN Strip(translate_to) ELSE None

\* "if translation_target:"
Truthy(s) == s # None /\ s # <<>>

\* a search order that asks the manual category twice
search_order_ManualTwice(prefer_generated) == <<"manual", "manual">>

\* the search order without the reverse()
search_order_NoReverse(prefer_generated) == <<"generated", "manual">>

search_order(prefer_generated) ==
    IF prefer_generated THEN <<"generated", "manual">> ELSE <<"manual", "generated">>

\* chosen_kind or "manual"
KindOrManual(kind) == IF kind = "none" THEN "manual" ELSE kind

\* the delay without the cap of 5 seconds
BackoffDelay_Uncapped(n) == 15 * (n + 1)

\* min(5.0, 1.5 * (attempt + 1)), in tenths of a second
BackoffDelay(n) == IF 15 * (n + 1) < 50 THEN 15 * (n + 1) ELSE 50

Raise(exc) ==
    /\ raised' = exc
    /\ pc' = "raised"

\* the final return reporting the language that was asked for
BaseSelection_TargetLanguage(entries) ==
    [kind |-> KindOrManual(chosen_kind),
     source_kind |-> KindOrManual(chosen_kind),
     language |-> IF Truthy(translation_target(args.translate_to))
                  THEN translation_target(args.translate_to)
                  ELSE chosen.language_code,
     translated_to |-> translated_to,
     entries |-> normalize_entries(entries)]

\* the final return with translated_to assigned before the translation calls
BaseSelection_TargetKept(entries) ==
    [kind |-> KindOrManual(chosen_kind),
     source_kind |-> KindOrManual(chosen_kind),
     language |-> chosen.language_code,
     translated_to |-> translation_target(args.translate_to),
     entries |-> normalize_entries(entries)]

\* the final "return TranscriptSelection(kind=chosen_kind or 'manual', ...)"
BaseSelection(entries) ==
    [kind |-> KindOrManual(chosen_kind),
     source_kind |-> KindOrManual(chosen_kind),
     language |-> chosen.language_code,
     translated_to |-> translated_to,
     entries |-> normalize_entries(entries)]

\* the "return TranscriptSelection(kind='translated', ...)" of the else clause;
\* the translated track carries the target language as its language_code
TranslatedSelection(entries, target) ==
    [kind |-> "translated",
     source_kind |-> KindOrManual(chosen_kind),
     language |-> translation_target(args.translate_to),
     translated_to |-> target,
     entries |-> normalize_entries(entries)]

\* the except clauses of the list retry loop, off by one: the last attempt is
\* taken to be number retries + 1
ListFailed_OffByOne(exc) ==
    CASE exc = "VideoUnavailable" ->
            /\ Raise(CliError("VideoUnavailable"))
            /\ UNCHANGED warnings
      [] exc = "TranscriptsDisabled" ->
            /\ Raise(CliError("CaptionsDisabled"))
            /\ UNCHANGED warnings
      [] exc \in ApiExceptions \ {"VideoUnavailable", "TranscriptsDisabled"} ->
            IF attempt = args.retries + 1
            THEN /\ Raise(CliError("TranscriptListFailed"))
                 /\ UNCHANGED warnings
            ELSE /\ warnings' = warnings + 1
                 /\ pc' = "sleep"
                 /\ UNCHANGED raised
      [] OTHER ->
            /\ Raise(Propagate(exc))
            /\ UNCHANGED warnings

\* the except clauses of the list retry loop without the one for
\* TranscriptsDisabled, which then counts as a transient failure
ListFailed_DisabledRetried(exc) ==
    CASE exc = "VideoUnavailable" ->
            /\ Raise(CliError("VideoUnavailable"))
            /\ UNCHANGED warnings
      [] exc \in ApiExceptions \ {"VideoUnavailable"} ->
            IF attempt = args.retries
            THEN /\ Raise(CliError("TranscriptListFailed"))
                 /\ UNCHANGED warnings
            ELSE /\ warnings' = warnings + 1
                 /\ pc' = "sleep"
                 /\ UNCHANGED raised
      [] OTHER ->
            /\ Raise(Propagate(exc))
            /\ UNCHANGED warnings

\* the except clauses of the list retry loop
ListFailed(exc) ==
    CASE exc = "VideoUnavailable" ->
            /\ Raise(CliError("VideoUnavailable"))
            /\ UNCHANGED warnings
      [] exc = "TranscriptsDisabled" ->
            /\ Raise(CliError("CaptionsDisabled"))
            /\ UNCHANGED warnings
      [] exc \in ApiExceptions \ {"VideoUnavailable", "TranscriptsDisabled"} ->
            IF attempt = args.retries
            THEN /\ Raise(CliError("TranscriptListFailed"))
                 /\ UNCHANGED warnings
            ELSE /\ warnings' = warnings + 1
                 /\ pc' = "sleep"
                 /\ UNCHANGED raised
      [] OTHER ->
            /\ Raise(Propagate(exc))
            /\ UNCHANGED warnings

\* one iteration of "for attempt in range(retries + 1)": api.list, the break
\* on success and the handlers on failure
ListAttempt ==
    /\ pc = "list"
    /\ attempt <= args.retries
    /\ \E outcome \in {"ok"} \cup ListRaises :
      /\ calls' = Append(calls, Call("list", outcome))
      /\ IF outcome = "ok"
         THEN /\ \E tl \in TrackLists : transcripts' = tl
              /\ pc' = "find"
              /\ UNCHANGED <<raised, warnings>>
         ELSE /\ ListFailed(outcome)
              /\ UNCHANGED transcripts
    /\ UNCHANGED <<args, attempt, search_idx, chosen, chosen_kind, base_entries,
                   translated_entries, translated_to, result, exit_code, sleeps,
                   file_written,
                   output_path, dir_made>>
    /\ UNCHANGED renderVars
    /\ UNCHANGED pureVars

\* time.sleep(delay) at the end of a failed iteration, then the next iteration
BackoffSleep ==
    /\ pc = "sleep"
    /\ sleeps' = Append(sleeps, BackoffDelay(attempt))
    /\ \/ /\ calls' = Append(calls, Call("sleep", "ok"))
          /\ attempt' = attempt + 1
          /\ pc' = "list"
          /\ UNCHANGED raised
       \/ /\ calls' = Append(calls, Call("sleep", "KeyboardInterrupt"))
          /\ Raise(Propagate("KeyboardInterrupt"))
          /\ UNCHANGED attempt
    /\ UNCHANGED <<args, transcripts, search_idx, chosen, chosen_kind, base_entries,
                   translated_entries, translated_to, result, exit_code, warnings,
                   file_written,
                   output_path, dir_made>>
    /\ UNCHANGED renderVars
    /\ UNCHANGED pureVars

\* the loop ran out without a break (only when range(retries + 1) is empty):
\* "if transcripts is None: raise CliError(...)"
ListLoopExhausted ==
    /\ pc = "list"
    /\ attempt > args.retries
    /\ transcripts = NoList
    /\ Raise(CliError("MetadataUnavailable"))
    /\ UNCHANGED <<args, attempt, transcripts, search_idx, chosen, chosen_kind,
                   base_entries, translated_entries, translated_to, result,
                   exit_code, calls, sleeps, warnings, file_written,
                   output_path, dir_made>>
    /\ UNCHANGED renderVars
    /\ UNCHANGED pureVars

\* the search loop falling through to the base fetch with nothing chosen
SearchExhausted_NoCheck ==
    /\ pc' = "fetch"
    /\ UNCHANGED raised

\* "if not chosen: raise CliError(...)" once both finders raised NoTranscriptFound
SearchExhausted == Raise(CliError("NoCaptionsAvailable"))

\* one iteration of "for kind, finder in search_order", and after the last one
\* "if not chosen: raise CliError(...)"
FindTrack ==
    /\ pc = "find"
    /\ search_idx <= 2
    /\ LET kind == search_order(args.prefer_generated)[search_idx]
           found == FindTranscript(transcripts[kind], kind,
                                   language_preferences(args.languages))
       IN  /\ calls' = Append(calls, Call("find_" \o kind,
                                  IF found # NoTrack THEN "ok" ELSE "NoTranscriptFound"))
           /\ IF found # NoTrack
              THEN /\ chosen' = found
                   /\ chosen_kind' = kind
                   /\ pc' = "fetch"
                   /\ UNCHANGED <<search_idx, raised>>
              ELSE /\ search_idx' = search_idx + 1
                   /\ UNCHANGED <<chosen, chosen_kind>>
                   /\ IF search_idx = 2
                      THEN SearchExhausted
                      ELSE UNCHANGED <<pc, raised>>
    /\ UNCHANGED <<args, attempt, transcripts, base_entries, translated_entries,
                   translated_to, result, exit_code, sleeps, warnings, file_written,
                   output_path, dir_made>>
    /\ UNCHANGED renderVars
    /\ UNCHANGED pureVars

\* the except clause of the base fetch, catching the library's exceptions only
FetchFailed_ApiOnly(exc) ==
    IF exc \in ApiExceptions
    THEN Raise(CliError("TranscriptFetchFailed"))
    ELSE Raise(Propagate(exc))

\* "except Exception as err: raise CliError(...)" around the base fetch
FetchFailed(exc) ==
    IF exc \in Exceptions
    THEN Raise(CliError("TranscriptFetchFailed"))
    ELSE Raise(Propagate(exc))

\* "base_entries = chosen.fetch()" and, without a translation target, the return
FetchBase ==
    /\ pc = "fetch"
    /\ \E outcome \in {"ok"} \cup FetchRaises :
      /\ calls' = Append(calls, Call("fetch", outcome))
      /\ CASE outcome = "ok" ->
                \E es \in FetchedTranscripts :
                    /\ base_entries' = es
                    /\ UNCHANGED raised
                    /\ IF Truthy(translation_target(args.translate_to))
                       THEN /\ pc' = "translate"
                            /\ UNCHANGED result
                       ELSE /\ pc' = "returned"
                            /\ result' = BaseSelection(es)
           [] OTHER ->
                /\ FetchFailed(outcome)
                /\ UNCHANGED <<base_entries, result>>
    /\ UNCHANGED <<args, attempt, transcripts, search_idx, chosen, chosen_kind,
                   translated_entries, translated_to, exit_code, sleeps, warnings,
                   file_written,
                   output_path, dir_made>>
    /\ UNCHANGED renderVars
    /\ UNCHANGED pureVars

\* a bare "except:" around the translation: every exception falls back
TranslationFailed_BareExcept(exc) ==
    /\ warnings' = warnings + 1
    /\ result' = BaseSelection(base_entries)
    /\ pc' = "returned"
    /\ UNCHANGED raised

\* the except clauses of the translation block
TranslationFailed(exc) ==
    IF exc \in {"NoTranscriptFound", "NotTranslatable", "TranslationLanguageNotAvailable"}
    THEN /\ warnings' = warnings + 1
         /\ result' = BaseSelection(base_entries)
         /\ pc' = "returned"
         /\ UNCHANGED raised
    ELSE IF exc \in ApiExceptions
    THEN /\ warnings' = warnings + 1
         /\ result' = BaseSelection(base_entries)
         /\ pc' = "returned"
         /\ UNCHANGED raised
    ELSE /\ Raise(Propagate(exc))
         /\ UNCHANGED <<warnings, result>>

\* "translated = chosen.translate(translation_target)"
Translate ==
    /\ pc = "translate"
    /\ \E outcome \in {"ok"} \cup TranslateRaises :
      /\ calls' = Append(calls, Call("translate", outcome))
      /\ IF outcome = "ok"
         THEN /\ pc' = "translated_fetch"
              /\ UNCHANGED <<raised, result, warnings>>
         ELSE TranslationFailed(outcome)
    /\ UNCHANGED <<args, attempt, transcripts, search_idx, chosen, chosen_kind,
                   base_entries, translated_entries, translated_to, exit_code,
                   sleeps, file_written,
                   output_path, dir_made>>
    /\ UNCHANGED renderVars
    /\ UNCHANGED pureVars

\* "translated_entries = translated.fetch()" and the rest of the try block up
\* to the return in its else clause
TranslatedFetch ==
    /\ pc = "translated_fetch"
    /\ \E outcome \in {"ok"} \cup FetchRaises :
      /\ calls' = Append(calls, Call("translated_fetch", outcome))
      /\ IF outcome = "ok"
         THEN \E es \in TranslatedTranscripts :
                /\ translated_entries' = es
                /\ translated_to' = translation_target(args.translate_to)
                /\ result' = TranslatedSelection(es, translated_to')
                /\ pc' = "returned"
                /\ UNCHANGED <<raised, warnings>>
         ELSE /\ TranslationFailed(outcome)
              /\ UNCHANGED <<translated_entries, translated_to>>
    /\ UNCHANGED <<args, attempt, transcripts, search_idx, chosen, chosen_kind,
                   base_entries, exit_code, sleeps, file_written,
                   output_path, dir_made>>
    /\ UNCHANGED renderVars
    /\ UNCHANGED pureVars

-----------------------------------------------------------------------------
(* Renderer inputs *)

Demo == <<"D", "e", "m", "o">>
CanonicalUrl == <<"h", "t", "t", "p", "s", ":", "/", "/", "w", "w", "w", ".", "y", "o", "u", "t", "u", "b", "e", ".", "c", "o", "m", "/", "w", "a", "t", "c", "h", "?", "v", "=", "x">>

\* entries of a TranscriptSelection; start and duration in tenths of a second
EntryPool ==
    { [text |-> <<"H", "e", "l", "l", "o", ",", " ", "w", "o", "r", "l", "d", ".">>, start |-> 0, duration |-> 20],
      [text |-> <<"[", "M", "u", "s", "i", "c", "]">>, start |-> 20, duration |-> 10],
      [text |-> <<"B", "y", "e">>, start |-> 50, duration |-> 10],
      [text |-> <<" ", "[", "A", "P", "P", "L", "A", "U", "S", "E", "]", "\n">>, start |-> 659, duration |-> 10],
      [text |-> <<"a", " ", "[", "m", "u", "s", "i", "c", "]", " ", ".">>, start |-> 36610, duration |-> 10],
      [text |-> <<"[", "M", "u", "s", "i", "c", "]", "[", "M", "u", "s", "i", "c", "]">>, start |-> 70, duration |-> 10],
      [text |-> None, start |-> -5, duration |-> 0] }

RECURSIVE SeqsUpTo(_, _)
SeqsUpTo(S, n) ==
    IF n = 0 THEN { <<>> }
    ELSE LET shorter == SeqsUpTo(S, n - 1)
         IN  shorter \cup { Append(q, e) : q \in { t \in shorter : Len(t) = n - 1 }, e \in S }

-----------------------------------------------------------------------------
(* write_txt *)

\* "raw_text and STAGE_DIRECTION_PATTERN.fullmatch(raw_text.strip())"
IsStageDirection(raw_text) == Truthy(raw_text) /\ FullMatch(Strip(raw_text))

\* the header with the title line emitted even for an empty title
TxtHeaderLines_AlwaysTitle(title, canonical_url) ==
    << <<"T", "i", "t", "l", "e", ":", " ">> \o title >>
        \o << <<"S", "o", "u", "r", "c", "e", ":", " ">> \o canonical_url >>
        \o << <<>> >>

\* the header lines of write_txt
TxtHeaderLines(title, canonical_url) ==
    (IF title # <<>> THEN << <<"T", "i", "t", "l", "e", ":", " ">> \o title >> ELSE <<>>)
        \o << <<"S", "o", "u", "r", "c", "e", ":", " ">> \o canonical_url >>
        \o << <<>> >>

\* the loop body of write_txt with the separator of a kept marker put after
\* its line
TxtEntryLines_SeparatorAfter(ls, entry, include_timestamps, keep_tags) ==
    LET raw_text == entry.text
        is_stage_direction == keep_tags /\ IsStageDirection(raw_text)
        text == clean_caption_text(raw_text, keep_tags)
        last_not_blank == ls # <<>> /\ ls[Len(ls)] # <<>>
    IN  IF ~keep_tags /\ IsStageDirection(raw_text)
        THEN IF last_not_blank THEN Append(ls, <<>>) ELSE ls
        ELSE IF text = <<>> THEN ls
        ELSE LET line == IF include_timestamps
                         THEN format_timestamp(entry.start) \o <<" ", "-", " ">> \o text
                         ELSE text
             IN  IF is_stage_direction THEN ls \o <<line, <<>> >> ELSE Append(ls, line)

\* the loop body of write_txt without the test of lines[-1] before a separator
TxtEntryLines_NoBlankCheck(ls, entry, include_timestamps, keep_tags) ==
    LET raw_text == entry.text
        is_stage_direction == keep_tags /\ IsStageDirection(raw_text)
        text == clean_caption_text(raw_text, keep_tags)
    IN  IF ~keep_tags /\ IsStageDirection(raw_text)
        THEN Append(ls, <<>>)
        ELSE IF text = <<>> THEN ls
        ELSE LET separated == IF is_stage_direction THEN Append(ls, <<>>) ELSE ls
             IN  IF include_timestamps
                 THEN Append(separated, format_timestamp(entry.start) \o <<" ", "-", " ">> \o text)
                 ELSE Append(separated, text)

\* the body of "for entry in transcript.entries" in write_txt
TxtEntryLines(ls, entry, include_timestamps, keep_tags) ==
    LET raw_text == entry.text
        is_stage_direction == keep_tags /\ IsStageDirection(raw_text)
        text == clean_caption_text(raw_text, keep_tags)
        last_not_blank == ls # <<>> /\ ls[Len(ls)] # <<>>
    IN  IF ~keep_tags /\ IsStageDirection(raw_text)
        THEN IF last_not_blank THEN Append(ls, <<>>) ELSE ls
        ELSE IF text = <<>> THEN ls
        ELSE LET separated == IF is_stage_direction /\ last_not_blank
                              THEN Append(ls, <<>>) ELSE ls
             IN  IF include_timestamps
                 THEN Append(separated, format_timestamp(entry.start) \o <<" ", "-", " ">> \o text)
                 ELSE Append(separated, text)

\* "\n".join(ls)
RECURSIVE JoinLines(_)
JoinLines(ls) ==
    IF ls = <<>> THEN <<>>
    ELSE IF Len(ls) = 1 THEN ls[1]
    ELSE ls[1] \o <<"\n">> \o JoinLines(Tail(ls))

\* "\n".join(lines).rstrip() + "\n"
TxtContent(ls) == RStrip(JoinLines(ls)) \o <<"\n">>

TxtHeader ==
    /\ r_pc = "txt_header"
    /\ lines' = TxtHeaderLines(r_args.title, r_args.canonical_url)
    /\ r_i' = 1
    /\ r_pc' = "txt_body"
    /\ UNCHANGED <<r_args, content, paragraphs, previous_blank, saved>>
    /\ UNCHANGED fetchVars
    /\ UNCHANGED pureVars

TxtEntry ==
    /\ r_pc = "txt_body"
    /\ r_i <= Len(r_args.entries)
    /\ lines' = TxtEntryLines(lines, r_args.entries[r_i], r_args.include_timestamps,
                              r_args.keep_tags)
    /\ r_i' = r_i + 1
    /\ UNCHANGED <<r_args, r_pc, content, paragraphs, previous_blank, saved>>
    /\ UNCHANGED fetchVars
    /\ UNCHANGED pureVars

\* path.write_text(content); the document writer runs next on the same arguments
TxtWrite ==
    /\ r_pc = "txt_body"
    /\ r_i > Len(r_args.entries)
    /\ content' = TxtContent(lines)
    /\ r_pc' = "docx_header"
    /\ UNCHANGED <<r_args, r_i, lines, paragraphs, previous_blank, saved>>
    /\ UNCHANGED fetchVars
    /\ UNCHANGED pureVars

-----------------------------------------------------------------------------
(* write_docx *)

Run(text, bold, link) == [text |-> text, bold |-> bold, link |-> link]
Paragraph(style, runs) == [style |-> style, runs |-> runs]
BlankParagraph == Paragraph("Normal", <<>>)

\* heading, source paragraph and the blank paragraph after them
DocxHeaderParagraphs(title, canonical_url) ==
    LET heading_text == IF title # <<>> THEN title ELSE <<"Y", "o", "u", "T", "u", "b", "e", " ", "T", "r", "a", "n", "s", "c", "r", "i", "p", "t">>
    IN  << Paragraph("Heading1",
                     IF canonical_url # <<>>
                     THEN << Run(heading_text, FALSE, canonical_url) >>
                     ELSE << Run(heading_text, FALSE, <<>>) >>),
           Paragraph("Normal", << Run(<<"S", "o", "u", "r", "c", "e", ":", " ">>, TRUE, <<>>),
                                  Run(canonical_url, FALSE, <<>>) >>),
           BlankParagraph >>

\* the loop body of write_docx writing the raw text of the entry
DocxEntryStep_RawText(ps, blank, entry, include_timestamps, keep_tags) ==
    LET raw_text == entry.text
        is_stage_direction == keep_tags /\ IsStageDirection(raw_text)
        text == clean_caption_text(raw_text, keep_tags)
    IN  IF ~keep_tags /\ IsStageDirection(raw_text)
        THEN IF ~blank THEN [ps |-> Append(ps, BlankParagraph), blank |-> TRUE]
             ELSE [ps |-> ps, blank |-> blank]
        ELSE IF text = <<>> THEN [ps |-> ps, blank |-> blank]
        ELSE LET separated == IF is_stage_direction /\ ~blank
                              THEN Append(ps, BlankParagraph) ELSE ps
                 runs == IF include_timestamps
                         THEN << Run(format_timestamp(entry.start) \o <<" ", "-", " ">>, TRUE, <<>>),
                                 Run(raw_text, FALSE, <<>>) >>
                         ELSE << Run(raw_text, FALSE, <<>>) >>
             IN  [ps |-> Append(separated, Paragraph("Normal", runs)), blank |-> FALSE]

\* the body of "for entry in transcript.entries" in write_docx: the new
\* paragraphs and the new value of previous_blank
DocxEntryStep(ps, blank, entry, include_timestamps, keep_tags) ==
    LET raw_text == entry.text
        is_stage_direction == keep_tags /\ IsStageDirection(raw_text)
        text == clean_caption_text(raw_text, keep_tags)
    IN  IF ~keep_tags /\ IsStageDirection(raw_text)
        THEN IF ~blank THEN [ps |-> Append(ps, BlankParagraph), blank |-> TRUE]
             ELSE [ps |-> ps, blank |-> blank]
        ELSE IF text = <<>> THEN [ps |-> ps, blank |-> blank]
        ELSE LET separated == IF is_stage_direction /\ ~blank
                              THEN Append(ps, BlankParagraph) ELSE ps
                 runs == IF include_timestamps
                         THEN << Run(format_timestamp(entry.start) \o <<" ", "-", " ">>, TRUE, <<>>),
                                 Run(text, FALSE, <<>>) >>
                         ELSE << Run(text, FALSE, <<>>) >>
             IN  [ps |-> Append(separated, Paragraph("Normal", runs)), blank |-> FALSE]

DocxHeader ==
    /\ r_pc = "docx_header"
    /\ paragraphs' = DocxHeaderParagraphs(r_args.title, r_args.canonical_url)
    /\ previous_blank' = TRUE
    /\ r_i' = 1
    /\ r_pc' = "docx_body"
    /\ UNCHANGED <<r_args, lines, content, saved>>
    /\ UNCHANGED fetchVars
    /\ UNCHANGED pureVars

DocxEntry ==
    /\ r_pc = "docx_body"
    /\ r_i <= Len(r_args.entries)
    /\ LET step == DocxEntryStep(paragraphs, previous_blank, r_args.entries[r_i],
                                 r_args.include_timestamps, r_args.keep_tags)
       IN  /\ paragraphs' = step.ps
           /\ previous_blank' = step.blank
    /\ r_i' = r_i + 1
    /\ UNCHANGED <<r_args, r_pc, lines, content, saved>>
    /\ UNCHANGED fetchVars
    /\ UNCHANGED pureVars

\* document.save(path)
DocxSave ==
    /\ r_pc = "docx_body"
    /\ r_i > Len(r_args.entries)
    /\ saved' = TRUE
    /\ r_pc' = "done"
    /\ UNCHANGED <<r_args, r_i, lines, content, paragraphs, previous_blank>>
    /\ UNCHANGED fetchVars
    /\ UNCHANGED pureVars

-----------------------------------------------------------------------------
(* extract_video_id *)

StartsWith(s, p) == Len(s) >= Len(p) /\ SubSeq(s, 1, Len(p)) = p

EndsWith(s, p) == Len(s) >= Len(p) /\ SubSeq(s, Len(s) - Len(p) + 1, Len(s)) = p

\* the operator "in" on strings
Contains(s, p) == \E i \in 1..(Len(s) - Len(p) + 1) : SubSeq(s, i, i + Len(p) - 1) = p

\* str.find for a set of characters: position of the first one, Len(s) + 1 if none
FirstOf(s, cs) ==
    IF \E i \in DOMAIN s : s[i] \in cs
    THEN CHOOSE i \in DOMAIN s : s[i] \in cs /\ \A j \in 1..(i - 1) : s[j] \notin cs
    ELSE Len(s) + 1

AsciiUpper == <<"A", "B", "C", "D", "E", "F", "G", "H", "I", "J", "K", "L", "M", "N", "O", "P", "Q", "R", "S", "T", "U", "V", "W", "X", "Y", "Z">>
AsciiLower == <<"a", "b", "c", "d", "e", "f", "g", "h", "i", "j", "k", "l", "m", "n", "o", "p", "q", "r", "s", "t", "u", "v", "w", "x", "y", "z">>

AsciiLetters == { AsciiUpper[i] : i \in DOMAIN AsciiUpper } \cup { AsciiLower[i] : i \in DOMAIN AsciiLower }

AsciiDigits == { DecimalDigits[i] : i \in DOMAIN DecimalDigits }

\* str.lower() on ASCII text
ToLower(s) ==
    [i \in DOMAIN s |->
        IF \E j \in DOMAIN AsciiUpper : AsciiUpper[j] = s[i]
        THEN AsciiLower[CHOOSE j \in DOMAIN AsciiUpper : AsciiUpper[j] = s[i]]
        ELSE s[i]]

IdLength == 11

\* VIDEO_ID_PATTERN.fullmatch
VIDEO_ID_PATTERN(s) ==
    /\ Len(s) = IdLength
    /\ \A i \in DOMAIN s : s[i] \in AsciiLetters \cup AsciiDigits \cup {"_", "-"}

\* no upgrade of inputs without a scheme
normalize_url_NoUpgrade(url_or_id) == url_or_id

normalize_url(url_or_id) ==
    IF StartsWith(url_or_id, <<"w", "w", "w", ".">>) THEN <<"h", "t", "t", "p", "s", ":", "/", "/">> \o url_or_id ELSE url_or_id

\* characters urllib allows in a scheme
SchemeChars == AsciiLetters \cup AsciiDigits \cup {"+", "-", "."}

\* urllib's _splitparams: the parameters of the last path segment
SplitParams(url) ==
    LET slashes == { i \in DOMAIN url : url[i] = "/" }
        last_slash == IF slashes = {} THEN 0 ELSE CHOOSE i \in slashes : \A j \in slashes : j <= i
        semis == { i \in DOMAIN url : url[i] = ";" /\ i > last_slash }
        semi == IF semis = {} THEN Len(url) + 1 ELSE CHOOSE i \in semis : \A j \in semis : i <= j
    IN  [path |-> SubSeq(url, 1, semi - 1), params |-> SubSeq(url, semi + 1, Len(url))]

\* urllib.parse.urlparse on text without control characters
urlparse(url) ==
    LET colon == FirstOf(url, {":"})
        has_scheme == /\ colon <= Len(url)
                      /\ colon > 1
                      /\ url[1] \in AsciiLetters
                      /\ \A i \in 1..(colon - 1) : url[i] \in SchemeChars
        scheme == IF has_scheme THEN ToLower(SubSeq(url, 1, colon - 1)) ELSE <<>>
        rest1 == IF has_scheme THEN SubSeq(url, colon + 1, Len(url)) ELSE url
        has_netloc == StartsWith(rest1, <<"/", "/">>)
        after == SubSeq(rest1, 3, Len(rest1))
        delim == FirstOf(after, {"/", "?", "#"})
        netloc == IF has_netloc THEN SubSeq(after, 1, delim - 1) ELSE <<>>
        rest2 == IF has_netloc THEN SubSeq(after, delim, Len(after)) ELSE rest1
        hash == FirstOf(rest2, {"#"})
        rest3 == SubSeq(rest2, 1, hash - 1)
        qm == FirstOf(rest3, {"?"})
        split == SplitParams(SubSeq(rest3, 1, qm - 1))
    IN  [scheme |-> scheme,
         netloc |-> netloc,
         path |-> split.path,
         params |-> split.params,
         query |-> SubSeq(rest3, qm + 1, Len(rest3)),
         fragment |-> SubSeq(rest2, hash + 1, Len(rest2))]

\* percent escapes urllib.parse.unquote decodes, a part of the full table
PercentCodes == << [code |-> <<"%", "2", "D">>, char |-> "-"], [code |-> <<"%", "5", "F">>, char |-> "_"],
                   [code |-> <<"%", "4", "1">>, char |-> "A"], [code |-> <<"%", "2", "1">>, char |-> "!"] >>

\* unquote(s.replace("+", " ")) as parse_qs applies it to names and values
RECURSIVE Unquote(_)
Unquote(s) ==
    IF s = <<>> THEN <<>>
    ELSE IF Head(s) = "+" THEN <<" ">> \o Unquote(Tail(s))
    ELSE IF \E k \in DOMAIN PercentCodes : StartsWith(s, PercentCodes[k].code)
         THEN LET k == CHOOSE k \in DOMAIN PercentCodes : StartsWith(s, PercentCodes[k].code)
              IN  <<PercentCodes[k].char>> \o Unquote(SubSeq(s, 4, Len(s)))
         ELSE <<Head(s)>> \o Unquote(Tail(s))

\* parse_qs(query).get(name, [None])[0]: the first non-blank value of the field
QueryFirst(query, name) ==
    LET pairs == Split(query, "&", <<>>)
        eq(k) == FirstOf(pairs[k], {"="})
        field(k) == Unquote(SubSeq(pairs[k], 1, eq(k) - 1))
        value(k) == Unquote(SubSeq(pairs[k], eq(k) + 1, Len(pairs[k])))
        hits == { k \in DOMAIN pairs : /\ eq(k) <= Len(pairs[k])
                                       /\ value(k) # <<>>
                                       /\ field(k) = name }
    IN  IF hits = {} THEN None
        ELSE value(CHOOSE k \in hits : \A j \in hits : k <= j)

\* [segment for segment in parsed.path.split("/") if segment]
PathSegments(path) == SelectSeq(Split(path, "/", <<>>), LAMBDA seg : seg # <<>>)

CanonicalPrefix == <<"h", "t", "t", "p", "s", ":", "/", "/", "w", "w", "w", ".", "y", "o", "u", "t", "u", "b", "e", ".", "c", "o", "m", "/", "w", "a", "t", "c", "h", "?", "v", "=">>

Resolved(video_id) ==
    [ok |-> TRUE, video_id |-> video_id, canonical_url |-> CanonicalPrefix \o video_id]

\* raise CliError(...)
InvalidReference(m) == [ok |-> FALSE, error |-> CliError(m)]

\* the identifier taken from the URL whatever its host is
LocateVideoId_AnyHost(parsed) ==
    LET path_segments == PathSegments(parsed.path)
    IN  IF StartsWith(parsed.path, <<"/", "w", "a", "t", "c", "h">>) THEN QueryFirst(parsed.query, <<"v">>)
        ELSE IF path_segments # <<>> THEN path_segments[Len(path_segments)]
        ELSE None

\* the identifier taken from the parsed URL, before it is validated
LocateVideoId(parsed) ==
    LET host == ToLower(parsed.netloc)
        path_segments == PathSegments(parsed.path)
    IN  IF EndsWith(host, <<"y", "o", "u", "t", "u", ".", "b", "e">>)
        THEN IF path_segments # <<>> THEN path_segments[1] ELSE None
        ELSE IF Contains(host, <<"y", "o", "u", "t", "u", "b", "e", ".", "c", "o", "m">>)
        THEN IF StartsWith(parsed.path, <<"/", "w", "a", "t", "c", "h">>)
             THEN QueryFirst(parsed.query, <<"v">>)
             ELSE IF /\ path_segments # <<>>
                     /\ path_segments[1] \in { <<"s", "h", "o", "r", "t", "s">>, <<"e", "m", "b", "e", "d">>, <<"l", "i", "v", "e">> }
                     /\ Len(path_segments) >= 2
                  THEN path_segments[2]
                  ELSE None
        ELSE None

extract_video_id(url_or_id) ==
    LET candidate == Strip(IF url_or_id = None THEN <<>> ELSE url_or_id)
        video_id == LocateVideoId(urlparse(normalize_url(candidate)))
    IN  IF candidate = <<>> THEN InvalidReference("NoInput")
        ELSE IF VIDEO_ID_PATTERN(candidate) THEN Resolved(candidate)
        ELSE IF video_id \in {None, <<>>} THEN InvalidReference("UnableToLocate")
        ELSE IF ~VIDEO_ID_PATTERN(video_id) THEN InvalidReference("InvalidVideoId")
        ELSE Resolved(video_id)

-----------------------------------------------------------------------------
(* sanitize_filename *)

\* characters outside ASCII, each a token: U+00E9, U+0301, U+FF1A, U+FF0F,
\* U+00AB, U+4E2D, U+2026, U+1F600 (category So), U+200B (category Cf)
NonAscii == {"<e-acute>", "<combining-acute>", "<fullwidth-colon>", "<fullwidth-solidus>",
             "<left-guillemet>", "<cjk-zhong>", "<ellipsis>", "<emoji>", "<zwsp>"}

\* unicodedata.category, for the categories sanitize_filename asks about
Category(char) ==
    CASE char \in {"\n", "\t"} -> "Cc"
      [] char = "<zwsp>" -> "Cf"
      [] char = "<emoji>" -> "So"
      [] OTHER -> "other"

IllegalChars == {"\\", "/", ":", "*", "?", "\"", "<", ">", "|"}

\* the loop "for char in text" of sanitize_filename
FilterChars(text) ==
    SelectSeq(text, LAMBDA char : /\ Category(char) \notin {"Cc", "Cf", "Cs", "Co", "So"}
                                  /\ char \notin IllegalChars)

\* str.strip(" .")
StripSpaceDot(s) ==
    LET inner == { i \in DOMAIN s : s[i] \notin {" ", "."} }
    IN  IF inner = {} THEN <<>>
        ELSE SubSeq(s, CHOOSE i \in inner : \A j \in inner : i <= j,
                       CHOOSE i \in inner : \A j \in inner : j <= i)

\* s.encode("ascii", "ignore").decode("ascii")
AsciiIgnore(s) == SelectSeq(s, LAMBDA char : char \notin NonAscii)

\* the ASCII text the unidecode library gives for one character
UnidecodeChar(char) ==
    CASE char = "<e-acute>" -> <<"e">>
      [] char = "<combining-acute>" -> <<>>
      [] char = "<fullwidth-colon>" -> <<":">>
      [] char = "<fullwidth-solidus>" -> <<"/">>
      [] char = "<left-guillemet>" -> <<"<", "<">>
      [] char = "<cjk-zhong>" -> <<"Z", "h", "o", "n", "g", " ">>
      [] char = "<ellipsis>" -> <<".", ".", ".">>
      [] char \in NonAscii -> <<>>
      [] OTHER -> <<char>>

\* unidecode(s): the texts of the characters, joined
RECURSIVE Unidecode(_)
Unidecode(s) ==
    IF s = <<>> THEN <<>>
    ELSE IF Len(s) = 1 THEN UnidecodeChar(s[1])
    ELSE LET half == Len(s) \div 2
         IN  Unidecode(SubSeq(s, 1, half)) \o Unidecode(SubSeq(s, half + 1, Len(s)))

\* the transliteration step: lines 206-212
Transliterate(s, unidecode_installed) ==
    AsciiIgnore(IF unidecode_installed THEN Unidecode(s) ELSE AsciiIgnore(s))

NameLimit == 200

\* str.upper() on ASCII text
ToUpper(s) ==
    [i \in DOMAIN s |->
        IF \E j \in DOMAIN AsciiLower : AsciiLower[j] = s[i]
        THEN AsciiUpper[CHOOSE j \in DOMAIN AsciiLower : AsciiLower[j] = s[i]]
        ELSE s[i]]

windows_reserved ==
    { <<"C", "O", "N">>, <<"P", "R", "N">>, <<"A", "U", "X">>, <<"N", "U", "L">> }
        \cup { <<"C", "O", "M">> \o <<DecimalDigits[i + 1]>> : i \in 1..9 }
        \cup { <<"L", "P", "T">> \o <<DecimalDigits[i + 1]>> : i \in 1..9 }

\* the cut at 200 characters: lines 215-216
Truncate(s) ==
    IF Len(s) > NameLimit THEN RStrip(SubSeq(s, 1, NameLimit)) ELSE s

\* the reserved-name rule: lines 218-227
ReservedSuffix(s) ==
    IF ToUpper(s) \in windows_reserved THEN s \o <<"_">> ELSE s

\* sanitize_filename; unidecode_installed tells whether "from unidecode import
\* unidecode" succeeds
sanitize_filename(base, unidecode_installed) ==
    IF base \in {None, <<>>} THEN <<>>
    ELSE LET text == NFC(base)
             filtered == FilterChars(text)
             tightened == StripSpaceDot(TightenPunctuation(CollapseWhitespace(filtered)))
             ascii == Transliterate(tightened, unidecode_installed)
             recollapsed == StripSpaceDot(CollapseWhitespace(ascii))
         IN  ReservedSuffix(Truncate(recollapsed))

-----------------------------------------------------------------------------
(* main *)

\* the locals of fetch_transcript and the logs of its calls
fetchLocals == <<attempt, transcripts, search_idx, chosen, chosen_kind, base_entries,
                 translated_entries, translated_to, result, calls, sleeps, warnings>>

\* "args = parse_args(argv)", before the try block of main: argparse leaves with
\* SystemExit, status 2 after a usage error and status 0 after printing the help
MainParseArgs ==
    /\ pc = "parse_args"
    /\ \E outcome \in {"ok", "usage_error", "help"} :
        IF outcome = "ok"
        THEN /\ pc' = "resolve"
             /\ UNCHANGED <<raised, exit_code>>
        ELSE /\ raised' = Propagate("SystemExit")
             /\ exit_code' = IF outcome = "help" THEN 0 ELSE 2
             /\ pc' = "exit"
    /\ UNCHANGED <<args, fetchLocals, file_written, output_path, dir_made>>
    /\ UNCHANGED renderVars
    /\ UNCHANGED pureVars

\* "video_id, canonical_url = extract_video_id(args.url_or_id)"
MainResolve ==
    /\ pc = "resolve"
    /\ LET reference == extract_video_id(args.url_or_id)
       IN  IF reference.ok
           THEN /\ pc' = "probe"
                /\ UNCHANGED raised
           ELSE Raise(reference.error)
    /\ UNCHANGED <<args, fetchLocals, exit_code, file_written, output_path, dir_made>>
    /\ UNCHANGED renderVars
    /\ UNCHANGED pureVars

\* probe_ytdlp and get_video_title: the probe is skipped or finds no binary,
\* yt-dlp prints a title, or fails in one of the ways get_video_title catches
\* (the title is then the video id), or subprocess.run raises something else.
\* The title is a local main reads again at line 629: it is drawn there.
MainProbe ==
    /\ pc = "probe"
    /\ \E outcome \in {"no_probe", "title", "no_title", "OSError", "KeyboardInterrupt"} :
        IF outcome \in {"OSError", "KeyboardInterrupt"}
        THEN Raise(Propagate(outcome))
        ELSE /\ pc' = "list"
             /\ UNCHANGED raised
    /\ UNCHANGED <<args, fetchLocals, exit_code, file_written, output_path, dir_made>>
    /\ UNCHANGED renderVars
    /\ UNCHANGED pureVars

\* titles yt-dlp prints
FetchedTitles == { Demo, <<"<emoji>">> }

\* lines 627-654: the name of the output file; with --out naming a directory
\* that does not exist yet, main creates it
MainOutputPath ==
    /\ pc = "returned"
    /\ \E title \in {extract_video_id(args.url_or_id).video_id} \cup FetchedTitles,
          unidecode_installed \in BOOLEAN, docx \in BOOLEAN, out \in {"default", "directory"} :
        LET sanitized == sanitize_filename(title, unidecode_installed)
            sanitized_base == IF sanitized = <<>>
                              THEN extract_video_id(args.url_or_id).video_id
                              ELSE sanitized
            extension == IF docx THEN <<".", "d", "o", "c", "x">> ELSE <<".", "t", "x", "t">>
        IN  IF out = "directory"
            THEN \E outcome \in {"ok", "OSError"} :
                    IF outcome = "ok"
                    THEN /\ output_path' = <<"o", "u", "t", "/">> \o sanitized_base \o extension
                         /\ dir_made' = TRUE
                         /\ pc' = "write"
                         /\ UNCHANGED raised
                    ELSE /\ Raise(Propagate(outcome))
                         /\ UNCHANGED <<output_path, dir_made>>
            ELSE /\ output_path' = sanitized_base \o extension
                 /\ pc' = "write"
                 /\ UNCHANGED <<dir_made, raised>>
    /\ UNCHANGED <<args, fetchLocals, exit_code, file_written>>
    /\ UNCHANGED renderVars
    /\ UNCHANGED pureVars

\* the writer returns normally although writing failed
WriterFailed_Swallowed(exc, touched) ==
    /\ file_written' = touched
    /\ exit_code' = 0
    /\ pc' = "exit"
    /\ UNCHANGED raised

\* an exception raised by mkdir, write_text or document.save inside the writer:
\* nothing catches it before main; the file may have been created already
WriterFailed(exc, touched) ==
    /\ Raise(Propagate(exc))
    /\ file_written' = touched
    /\ UNCHANGED exit_code

\* the writer call and "return 0"; write_docx first imports python-docx
MainWrite ==
    /\ pc = "write"
    /\ \E outcome \in {"ok", "ImportError", "OSError", "KeyboardInterrupt"} :
        CASE outcome = "ok" ->
                /\ file_written' = TRUE
                /\ exit_code' = 0
                /\ pc' = "exit"
                /\ UNCHANGED raised
          [] outcome = "ImportError" ->
                /\ EndsWith(output_path, <<".", "d", "o", "c", "x">>)
                /\ Raise(CliError("MissingDependency"))
                /\ UNCHANGED <<file_written, exit_code>>
          [] OTHER ->
                \E touched \in BOOLEAN : WriterFailed(outcome, touched)
    /\ UNCHANGED <<args, fetchLocals, output_path, dir_made>>
    /\ UNCHANGED renderVars
    /\ UNCHANGED pureVars

\* every exception handled by the clause "except Exception"
MainExcept_OneClause ==
    /\ pc = "raised"
    /\ exit_code' = 1
    /\ pc' = "exit"
    /\ UNCHANGED <<args, fetchLocals, raised, file_written, output_path, dir_made>>
    /\ UNCHANGED renderVars
    /\ UNCHANGED pureVars

\* the except clauses of main
MainExcept ==
    /\ pc = "raised"
    /\ exit_code' = CASE raised.class = "CliError" -> 1
                      [] raised.class = "KeyboardInterrupt" -> 130
                      [] OTHER -> 1
    /\ pc' = "exit"
    /\ UNCHANGED <<args, fetchLocals, raised, file_written, output_path, dir_made>>
    /\ UNCHANGED renderVars
    /\ UNCHANGED pureVars

-----------------------------------------------------------------------------
NoRenderArgs == [entries |-> <<>>, title |-> <<>>, canonical_url |-> <<>>,
                 include_timestamps |-> FALSE, keep_tags |-> FALSE]

\* no rendering run in progress
RenderIdle ==
    /\ r_args = NoRenderArgs
    /\ r_pc = "idle"
    /\ r_i = 0
    /\ lines = <<>>
    /\ content = <<>>
    /\ paragraphs = <<>>
    /\ previous_blank = FALSE
    /\ saved = FALSE

\* no helper function being called
PureIdle ==
    /\ f_arg = <<>>
    /\ f_ret = <<>>
    /\ f_again = <<>>
    /\ f_pc = "idle"

\* the budget main leaves to the default of fetch_transcript
DefaultRetries == 2

\* a reference that resolves and one that does not
ResolvingReference == <<"h", "t", "t", "p", "s", ":", "/", "/", "y", "o", "u", "t", "u", ".", "b", "e", "/", "d", "Q", "w", "4", "w", "9", "W", "g", "X", "c", "Q">>
ReferenceArgs == { ResolvingReference, <<"h", "t", "t", "p", "s", ":", "/", "/", "e", "x", "a", "m", "p", "l", "e", ".", "c", "o", "m", "/", "w", "a", "t", "c", "h", "?", "v", "=", "d", "Q", "w", "4", "w", "9", "W", "g", "X", "c", "Q">> }

\* the command lines made of the given references, budgets, --lang and
\* --translate values
ArgSets(references, budgets, languages, targets) ==
    [prefer_generated : BOOLEAN, languages : languages,
     translate_to : targets, retries : budgets, url_or_id : references]

\* the locals and logs of a run that is at position start
RunAt(start) ==
    /\ pc = start
    /\ attempt = 0
    /\ transcripts = NoList
    /\ search_idx = 1
    /\ chosen = NoTrack
    /\ chosen_kind = "none"
    /\ base_entries = <<>>
    /\ translated_entries = <<>>
    /\ translated_to = None
    /\ result = NoSelection
    /\ raised = NoExc
    /\ exit_code = -1
    /\ calls = <<>>
    /\ sleeps = <<>>
    /\ warnings = 0
    /\ file_written = FALSE
    /\ output_path = <<>>
    /\ dir_made = FALSE

\* no pipeline run in progress
FetchIdle ==
    /\ args = [prefer_generated |-> FALSE, languages |-> <<>>, translate_to |-> None,
               retries |-> 0, url_or_id |-> <<>>]
    /\ RunAt("idle")

\* fetch_transcript called for a resolved reference, with every retry budget
Init ==
    /\ args \in ArgSets({ResolvingReference}, -1..MaxRetries, LanguageInputs, TranslateInputs)
    /\ RunAt("list")
    /\ RenderIdle
    /\ PureIdle

\* the steps of fetch_transcript
FetchNext ==
    \/ ListAttempt
    \/ BackoffSleep
    \/ ListLoopExhausted
    \/ FindTrack
    \/ FetchBase
    \/ Translate
    \/ TranslatedFetch

\* fetch_transcript, its exceptions handled by the except clauses of main
Next ==
    \/ FetchNext
    \/ MainExcept

Spec == Init /\ [][Next]_vars

\* main from its first line, with the retry budget main uses
MainInit ==
    /\ args \in ArgSets(ReferenceArgs, {DefaultRetries}, { <<>>, <<De, En>> }, { None, De })
    /\ RunAt("parse_args")
    /\ RenderIdle
    /\ PureIdle

\* the steps of main; with the default budget the list loop of fetch_transcript
\* always leaves by a return or a raise, so the code after the loop is not a step
MainNext ==
    \/ MainParseArgs
    \/ MainResolve
    \/ MainProbe
    \/ ListAttempt
    \/ BackoffSleep
    \/ FindTrack
    \/ FetchBase
    \/ Translate
    \/ TranslatedFetch
    \/ MainOutputPath
    \/ MainWrite
    \/ MainExcept

MainSpec == MainInit /\ [][MainNext]_vars

\* both writers called, one after the other, with the same arguments
RenderInit ==
    /\ FetchIdle
    /\ r_args \in [entries : SeqsUpTo(EntryPool, MaxEntries),
                   title : { <<>>, Demo },
                   canonical_url : { CanonicalUrl },
                   include_timestamps : BOOLEAN,
                   keep_tags : BOOLEAN]
    /\ r_pc = "txt_header"
    /\ r_i = 0
    /\ lines = <<>>
    /\ content = <<>>
    /\ paragraphs = <<>>
    /\ previous_blank = FALSE
    /\ saved = FALSE
    /\ PureIdle

RenderNext ==
    \/ TxtHeader
    \/ TxtEntry
    \/ TxtWrite
    \/ DocxHeader
    \/ DocxEntry
    \/ DocxSave

RenderSpec == RenderInit /\ [][RenderNext]_vars

\* the run is sequential code: a step that can be taken is taken
FairSpec == Spec /\ WF_vars(Next)

-----------------------------------------------------------------------------
(* format_timestamp called on its own *)

MaxSeconds == 3700

\* start times in tenths of a second: every time up to MaxSeconds, some
\* negative ones and some of ten and of a hundred hours
TimestampInputs ==
    (-25 .. MaxSeconds * 10 + 9)
        \cup { 10 * s + d : s \in {7325, 35999, 36000, 86399, 359999, 360000}, d \in {0, 9} }

TimestampInit ==
    /\ FetchIdle
    /\ RenderIdle
    /\ f_arg \in TimestampInputs
    /\ f_ret = <<>>
    /\ f_again = <<>>
    /\ f_pc = "format_timestamp"

FormatTimestamp ==
    /\ f_pc = "format_timestamp"
    /\ f_ret' = format_timestamp(f_arg)
    /\ f_pc' = "returned"
    /\ UNCHANGED <<f_arg, f_again>>
    /\ UNCHANGED fetchVars
    /\ UNCHANGED renderVars

TimestampSpec == TimestampInit /\ [][FormatTimestamp]_vars

-----------------------------------------------------------------------------
(* extract_video_id called on its own *)

\* identifiers put into the inputs: three that match the pattern, five that do not
SampleIds == { <<"d", "Q", "w", "4", "w", "9", "W", "g", "X", "c", "Q">>, <<"-", "_", "a", "Z", "0", "9", "-", "_", "a", "Z", "0">>, <<"A", "b", "c", "d", "e", "f", "g", "h", "i", "j", "k">>,
               <<>>, <<"s", "h", "o", "r", "t">>, <<"d", "Q", "w", "4", "w", "9", "W", "g", "X", "c", "!">>, <<"d", "Q", "w", "4", "w", "9", "W", "g", "X", "c", "Q", "Q">>, <<"%", "4", "1", "b", "c", "d", "e", "f", "g", "h", "i", "j">> }

\* input shapes that refer to a video: what precedes and what follows the identifier
ReferringShapes ==
    { [prefix |-> <<>>, suffix |-> <<>>],
      [prefix |-> <<" ", " ">>, suffix |-> <<"\n">>],
      [prefix |-> <<"h", "t", "t", "p", "s", ":", "/", "/", "w", "w", "w", ".", "y", "o", "u", "t", "u", "b", "e", ".", "c", "o", "m", "/", "w", "a", "t", "c", "h", "?", "v", "=">>, suffix |-> <<>>],
      [prefix |-> <<"h", "t", "t", "p", ":", "/", "/", "y", "o", "u", "t", "u", "b", "e", ".", "c", "o", "m", "/", "w", "a", "t", "c", "h", "?", "v", "=">>, suffix |-> <<"&", "t", "=", "4", "2", "s">>],
      [prefix |-> <<"h", "t", "t", "p", "s", ":", "/", "/", "m", ".", "y", "o", "u", "t", "u", "b", "e", ".", "c", "o", "m", "/", "w", "a", "t", "c", "h", "?", "f", "e", "a", "t", "u", "r", "e", "=", "s", "h", "a", "r", "e", "&", "v", "=">>, suffix |-> <<"#", "t", "o", "p">>],
      [prefix |-> <<"H", "T", "T", "P", "S", ":", "/", "/", "W", "W", "W", ".", "Y", "O", "U", "T", "U", "B", "E", ".", "C", "O", "M", "/", "w", "a", "t", "c", "h", "?", "v", "=">>, suffix |-> <<>>],
      [prefix |-> <<"h", "t", "t", "p", "s", ":", "/", "/", "y", "o", "u", "t", "u", ".", "b", "e", "/">>, suffix |-> <<>>],
      [prefix |-> <<"h", "t", "t", "p", "s", ":", "/", "/", "y", "o", "u", "t", "u", ".", "b", "e", "/">>, suffix |-> <<"?", "t", "=", "1", "0">>],
      [prefix |-> <<"h", "t", "t", "p", "s", ":", "/", "/", "w", "w", "w", ".", "y", "o", "u", "t", "u", "b", "e", ".", "c", "o", "m", "/", "s", "h", "o", "r", "t", "s", "/">>, suffix |-> <<>>],
      [prefix |-> <<"h", "t", "t", "p", "s", ":", "/", "/", "w", "w", "w", ".", "y", "o", "u", "t", "u", "b", "e", ".", "c", "o", "m", "/", "e", "m", "b", "e", "d", "/">>, suffix |-> <<"?", "r", "e", "l", "=", "0">>],
      [prefix |-> <<"h", "t", "t", "p", "s", ":", "/", "/", "w", "w", "w", ".", "y", "o", "u", "t", "u", "b", "e", ".", "c", "o", "m", "/", "l", "i", "v", "e", "/">>, suffix |-> <<"/">>],
      [prefix |-> <<"w", "w", "w", ".", "y", "o", "u", "t", "u", "b", "e", ".", "c", "o", "m", "/", "w", "a", "t", "c", "h", "?", "v", "=">>, suffix |-> <<>>],
      [prefix |-> <<"w", "w", "w", ".", "y", "o", "u", "t", "u", ".", "b", "e", "/">>, suffix |-> <<>>],
      [prefix |-> <<"w", "w", "w", ".", "y", "o", "u", "t", "u", "b", "e", ".", "c", "o", "m", "/", "s", "h", "o", "r", "t", "s", "/">>, suffix |-> <<>>],
      [prefix |-> <<"w", "w", "w", ".", "y", "o", "u", "t", "u", "b", "e", ".", "c", "o", "m", "/", "e", "m", "b", "e", "d", "/">>, suffix |-> <<>>],
      [prefix |-> <<"w", "w", "w", ".", "y", "o", "u", "t", "u", "b", "e", ".", "c", "o", "m", "/", "l", "i", "v", "e", "/">>, suffix |-> <<"?", "f", "e", "a", "t", "u", "r", "e", "=", "s", "h", "a", "r", "e">>] }

\* shapes with an identifier in them that normalize_url does not upgrade or
\* whose host or path is not one of the forms above
OtherShapes ==
    { [prefix |-> <<"y", "o", "u", "t", "u", "b", "e", ".", "c", "o", "m", "/", "w", "a", "t", "c", "h", "?", "v", "=">>, suffix |-> <<>>],
      [prefix |-> <<"y", "o", "u", "t", "u", ".", "b", "e", "/">>, suffix |-> <<>>],
      [prefix |-> <<"W", "W", "W", ".", "y", "o", "u", "t", "u", "b", "e", ".", "c", "o", "m", "/", "w", "a", "t", "c", "h", "?", "v", "=">>, suffix |-> <<>>],
      [prefix |-> <<"h", "t", "t", "p", "s", ":", "/", "/", "w", "w", "w", ".", "y", "o", "u", "t", "u", "b", "e", ".", "c", "o", "m", "/", "c", "h", "a", "n", "n", "e", "l", "/">>, suffix |-> <<>>],
      [prefix |-> <<"h", "t", "t", "p", "s", ":", "/", "/", "w", "w", "w", ".", "y", "o", "u", "t", "u", "b", "e", ".", "c", "o", "m", "/", "s", "h", "o", "r", "t", "s", "/", "x", ";">>, suffix |-> <<>>],
      [prefix |-> <<"h", "t", "t", "p", "s", ":", "/", "/", "n", "o", "t", "y", "o", "u", "t", "u", "b", "e", ".", "c", "o", "m", ".", "e", "x", "a", "m", "p", "l", "e", ".", "o", "r", "g", "/", "w", "a", "t", "c", "h", "?", "v", "=">>, suffix |-> <<>>] }

ShapedInputs(shapes, kind) ==
    { [url_or_id |-> sh.prefix \o id \o sh.suffix, id |-> id, kind |-> kind] :
        sh \in shapes, id \in SampleIds }

FixedInput(text, kind) == [url_or_id |-> text, id |-> <<>>, kind |-> kind]

\* inputs from which no identifier can be taken, each with the reason
UnlocatableInputs ==
    { FixedInput(None, "empty"), FixedInput(<<>>, "empty"), FixedInput(<<" ", "\n", " ">>, "empty"),
      FixedInput(<<"h", "t", "t", "p", "s", ":", "/", "/", "e", "x", "a", "m", "p", "l", "e", ".", "c", "o", "m", "/", "w", "a", "t", "c", "h", "?", "v", "=", "d", "Q", "w", "4", "w", "9", "W", "g", "X", "c", "Q">>, "host"),
      FixedInput(<<"h", "t", "t", "p", "s", ":", "/", "/", "v", "i", "m", "e", "o", ".", "c", "o", "m", "/", "d", "Q", "w", "4", "w", "9", "W", "g", "X", "c", "Q">>, "host"),
      FixedInput(<<"f", "t", "p", ":", "d", "Q", "w", "4", "w", "9", "W", "g", "X", "c", "Q">>, "host"),
      FixedInput(<<"h", "t", "t", "p", "s", ":", "/", "/", "y", "o", "u", "t", "u", ".", "b", "e", "/">>, "no_segment"),
      FixedInput(<<"h", "t", "t", "p", "s", ":", "/", "/", "y", "o", "u", "t", "u", ".", "b", "e">>, "no_segment"),
      FixedInput(<<"h", "t", "t", "p", "s", ":", "/", "/", "w", "w", "w", ".", "y", "o", "u", "t", "u", "b", "e", ".", "c", "o", "m", "/">>, "no_segment"),
      FixedInput(<<"h", "t", "t", "p", "s", ":", "/", "/", "w", "w", "w", ".", "y", "o", "u", "t", "u", "b", "e", ".", "c", "o", "m", "/", "w", "a", "t", "c", "h">>, "no_v"),
      FixedInput(<<"h", "t", "t", "p", "s", ":", "/", "/", "w", "w", "w", ".", "y", "o", "u", "t", "u", "b", "e", ".", "c", "o", "m", "/", "w", "a", "t", "c", "h", "?", "t", "=", "1", "&", "w", "=", "d", "Q", "w", "4", "w", "9", "W", "g", "X", "c", "Q">>, "no_v"),
      FixedInput(<<"h", "t", "t", "p", "s", ":", "/", "/", "w", "w", "w", ".", "y", "o", "u", "t", "u", "b", "e", ".", "c", "o", "m", "/", "w", "a", "t", "c", "h", "?", "v", "=", "&", "t", "=", "1">>, "no_v"),
      FixedInput(<<"h", "t", "t", "p", "s", ":", "/", "/", "w", "w", "w", ".", "y", "o", "u", "t", "u", "b", "e", ".", "c", "o", "m", "/", "s", "h", "o", "r", "t", "s">>, "no_second"),
      FixedInput(<<"h", "t", "t", "p", "s", ":", "/", "/", "w", "w", "w", ".", "y", "o", "u", "t", "u", "b", "e", ".", "c", "o", "m", "/", "e", "m", "b", "e", "d", "/">>, "no_second"),
      FixedInput(<<"w", "w", "w", ".", "y", "o", "u", "t", "u", "b", "e", ".", "c", "o", "m", "/", "l", "i", "v", "e", "/", "/">>, "no_second") }

ReferenceInputs ==
    ShapedInputs(ReferringShapes, "refers") \cup ShapedInputs(OtherShapes, "other")
        \cup UnlocatableInputs

ExtractInit ==
    /\ FetchIdle
    /\ RenderIdle
    /\ f_arg \in ReferenceInputs
    /\ f_ret = <<>>
    /\ f_again = <<>>
    /\ f_pc = "extract_video_id"

ExtractVideoId ==
    /\ f_pc = "extract_video_id"
    /\ f_ret' = extract_video_id(f_arg.url_or_id)
    /\ f_pc' = "returned"
    /\ UNCHANGED <<f_arg, f_again>>
    /\ UNCHANGED fetchVars
    /\ UNCHANGED renderVars

ExtractSpec == ExtractInit /\ [][ExtractVideoId]_vars

-----------------------------------------------------------------------------
(* sanitize_filename called on its own *)

MaxTitleLen == 3

\* characters of the short titles
TitleChars == {"a", "C", "O", "N", " ", ".", ",", ":", "<e-acute>", "<fullwidth-colon>",
               "<emoji>", "<cjk-zhong>"}

\* a character n times
Repeat(char, n) == [i \in 1..n |-> char]

\* titles around the limit of 200 characters
LongTitles ==
    { Repeat("a", n) \o tail :
        n \in (NameLimit - 2)..(NameLimit + 1),
        tail \in { <<>>, <<".">>, <<" ", "b">>, <<".", " ", "b">>, <<" ", ".", "b">>, <<"<cjk-zhong>">>, <<"<ellipsis>", "b">> } }

\* titles of reserved names and of the other characters
NamedTitles ==
    { <<"C", "O", "M", "1">>, <<"l", "p", "t", "9">>, <<"C", "o", "n">>, <<" ", "n", "u", "l", ".">>, <<"C", "O", "M", "1", "0">>, <<"P", "R", "N", "_">>, <<"a", "u", "x">>, <<"C", "<e-acute>", "O", "N">>,
      <<"a", "e", "<combining-acute>", " ", "b">>, <<"a", " ", "<e-acute>", ",", "b">>, <<"a", "<zwsp>", "\t", "b">>,
      <<"a", " ", "<fullwidth-solidus>", " ", "b">>, <<"<left-guillemet>", "a">>,
      <<"a", " ", "<ellipsis>">>, <<"a", "*", "b", "?", "c", "|", "d">>, <<"a", "\\", "b", "\"", "<", ">">> }

TitleInputs == SeqsUpTo(TitleChars, MaxTitleLen) \cup LongTitles \cup NamedTitles \cup {None}

SanitizeInit ==
    /\ FetchIdle
    /\ RenderIdle
    /\ f_arg \in [base : TitleInputs, unidecode_installed : BOOLEAN]
    /\ f_ret = <<>>
    /\ f_again = <<>>
    /\ f_pc = "sanitize_filename"

SanitizeFilename ==
    /\ f_pc = "sanitize_filename"
    /\ f_ret' = sanitize_filename(f_arg.base, f_arg.unidecode_installed)
    /\ f_pc' = "returned"
    /\ UNCHANGED <<f_arg, f_again>>
    /\ UNCHANGED fetchVars
    /\ UNCHANGED renderVars

\* sanitize_filename called on the name it returned
SanitizeAgain ==
    /\ f_pc = "returned"
    /\ f_again' = sanitize_filename(f_ret, f_arg.unidecode_installed)
    /\ f_pc' = "again"
    /\ UNCHANGED <<f_arg, f_ret>>
    /\ UNCHANGED fetchVars
    /\ UNCHANGED renderVars

SanitizeNext == SanitizeFilename \/ SanitizeAgain

SanitizeSpec == SanitizeInit /\ [][SanitizeNext]_vars

-----------------------------------------------------------------------------
(* The list retry loop with larger budgets *)

MaxBackoffRetries == 5

\* fetch_transcript called with budgets large enough for the delay to reach
\* its cap, with the default languages
BackoffInit ==
    /\ args \in ArgSets({ResolvingReference}, -1..MaxBackoffRetries, { <<>> }, { None, De })
    /\ RunAt("list")
    /\ RenderIdle
    /\ PureIdle

BackoffSpec == BackoffInit /\ [][Next]_vars

-----------------------------------------------------------------------------
(* clean_caption_text called on its own *)

MaxPieces == 3

\* pieces of caption text: letters, whitespace, punctuation, whole markers and
\* the two halves of a marker
TextPieces ==
    { <<"a">>, <<" ">>, <<"\n">>, <<",">>,
      <<"[", "m", "u", "s", "i", "c", "]">>,
      <<"[", "A", "p", "p", "l", "a", "u", "s", "e", "]">>,
      <<"[", "M", "U">>, <<"S", "I", "C", "]">> }

\* the texts made of up to n pieces
RECURSIVE PiecedTexts(_)
PiecedTexts(n) ==
    IF n = 0 THEN { <<>> }
    ELSE PiecedTexts(n - 1) \cup { t \o p : t \in PiecedTexts(n - 1), p \in TextPieces }

CleanInit ==
    /\ f_arg \in [text : PiecedTexts(MaxPieces) \cup { None }, keep_tags : BOOLEAN]
    /\ f_ret = <<>>
    /\ f_again = <<>>
    /\ f_pc = "called"
    /\ FetchIdle
    /\ RenderIdle

CleanCaptionText ==
    /\ f_pc = "called"
    /\ f_ret' = clean_caption_text(f_arg.text, f_arg.keep_tags)
    /\ f_pc' = "returned"
    /\ UNCHANGED <<f_arg, f_again>>
    /\ UNCHANGED fetchVars
    /\ UNCHANGED renderVars

CleanSpec == CleanInit /\ [][CleanCaptionText]_vars

-----------------------------------------------------------------------------
(* Properties of fetch_transcript *)

CallsOf(ops) == { k \in DOMAIN calls : calls[k].op \in ops }

TranslationOps == {"translate", "translated_fetch"}

\* a translation call raised an exception (an interrupt is no exception)
TranslationRaised ==
    \E k \in CallsOf(TranslationOps) : calls[k].outcome \in Exceptions

\* the entries are the raw items field by field, with the defaults filled in
EntriesOfRaw(entries, raw) ==
    /\ Len(entries) = Len(raw)
    /\ \A i \in DOMAIN raw :
        /\ entries[i].text = (IF "text" \in DOMAIN raw[i].data THEN raw[i].data.text ELSE <<>>)
        /\ entries[i].start = (IF "start" \in DOMAIN raw[i].data THEN raw[i].data.start ELSE 0)
        /\ entries[i].duration =
              (IF "duration" \in DOMAIN raw[i].data THEN raw[i].data.duration ELSE 0)

\* C1: once the base track is fetched and a translation target is requested, an
\* exception of any kind raised by translate() or by the translated track's
\* fetch() never fails the run: fetch_transcript still returns a selection.
C1_TranslationFailureNeverFatal ==
    TranslationRaised => result # NoSelection

\* C2: a selection returned after a failed translation attempt has the selected
\* category as its kind, never "translated", the base track's language, and the
\* normalized entries of the base track fetched before the attempt.
C2_FallbackIsBaseTrack ==
    (TranslationRaised /\ result # NoSelection) =>
        /\ result.kind \in {"manual", "generated"}
        /\ result.kind = chosen_kind
        /\ result.language = chosen.language_code
        /\ result.language \in transcripts[chosen_kind]
        /\ EntriesOfRaw(result.entries, base_entries)

C2_Witness ==
    /\ pc = "returned"
    /\ \E k \in CallsOf({"translated_fetch"}) : calls[k].outcome = "YouTubeRequestFailed"
    /\ result.kind = "generated"
    /\ result.language = De
    /\ Len(result.entries) = 2
    /\ result.entries[2].text = <<>>

\* C3: every selection returned has kind "translated" exactly when translated_to
\* is set; a translated selection carries the translated track's entries; any
\* other selection has kind = source_kind and translated_to unset.
C3_SelectionInvariant ==
    result # NoSelection =>
        /\ result.kind = "translated" <=> result.translated_to # None
        /\ result.kind = "translated" =>
              /\ calls[Len(calls)] = Call("translated_fetch", "ok")
              /\ result.translated_to = Strip(args.translate_to)
              /\ result.source_kind = chosen_kind
              /\ EntriesOfRaw(result.entries, translated_entries)
        /\ result.kind # "translated" =>
              /\ result.kind = result.source_kind
              /\ result.kind = chosen_kind
              /\ result.translated_to = None

C3_Witness ==
    /\ pc = "returned"
    /\ result.kind = "translated"
    /\ result.translated_to = De
    /\ translated_entries # <<>>
    /\ base_entries # <<>>
    /\ result.entries[1].text = Ho
    /\ base_entries[1].data.text = Hi

\* a list failure that is retried
TransientListFailure(k) ==
    /\ calls[k].op = "list"
    /\ calls[k].outcome \in ApiExceptions \ {"VideoUnavailable", "TranscriptsDisabled"}

ListLoopBound ==
    /\ Cardinality(CallsOf({"list"})) <= args.retries + 1
    /\ \A k \in CallsOf({"list"}) :
          calls[k].outcome = "ok" =>
              \A j \in DOMAIN calls : j > k => calls[j].op \notin {"list", "sleep"}
    /\ ( /\ Cardinality(CallsOf({"list"})) = args.retries + 1
         /\ \A k \in CallsOf({"list"}) : TransientListFailure(k) )
       => /\ pc \in {"raised", "exit"}
          /\ raised = CliError("TranscriptListFailed")
          /\ CallsOf({"find_generated", "find_manual", "fetch"} \cup TranslationOps) = {}

\* C4: for a retry budget r >= 0 api.list is called at most r + 1 times, the
\* loop stops at the first successful call, r + 1 transient failures end the
\* run with the list error before any track selection, and the loop is left
\* in every run.
C4_ListLoopBounded ==
    /\ [](args.retries >= 0 => ListLoopBound)
    /\ <>(pc \notin {"list", "sleep"})

C4_Witness ==
    /\ args.retries = 2
    /\ Cardinality(CallsOf({"list"})) = 3
    /\ \A k \in CallsOf({"list"}) : TransientListFailure(k)
    /\ raised = CliError("TranscriptListFailed")

\* C5: a list attempt that reports the video unavailable or its captions
\* disabled ends fetch_transcript at once with the matching error: it is the
\* last call made, no sleep follows it, and no find, fetch or translate call is
\* made, whatever budget is left.
C5_DefinitiveFailureImmediate ==
    \A k \in CallsOf({"list"}) :
        calls[k].outcome \in {"VideoUnavailable", "TranscriptsDisabled"} =>
            /\ k = Len(calls)
            /\ Len(sleeps) = Cardinality(CallsOf({"list"})) - 1
            /\ pc \in {"raised", "exit"}
            /\ raised = CliError(IF calls[k].outcome = "VideoUnavailable"
                                 THEN "VideoUnavailable" ELSE "CaptionsDisabled")
            /\ result = NoSelection

C5_Witness ==
    /\ args.retries = 3
    /\ Len(calls) = 3
    /\ calls[3] = Call("list", "TranscriptsDisabled")
    /\ raised = CliError("CaptionsDisabled")

HasMatch(kind) ==
    \E i \in DOMAIN language_preferences(args.languages) :
        language_preferences(args.languages)[i] \in transcripts[kind]

\* the first preferred language the category has a track for
FirstMatch(kind) ==
    LET prefs == language_preferences(args.languages)
        i == CHOOSE n \in DOMAIN prefs :
                /\ prefs[n] \in transcripts[kind]
                /\ \A m \in 1..(n - 1) : prefs[m] \notin transcripts[kind]
    IN  prefs[i]

PreferredKind == IF args.prefer_generated THEN "generated" ELSE "manual"
OtherKind == IF args.prefer_generated THEN "manual" ELSE "generated"

\* C6: the categories are tried as generated, manual when generated captions
\* are preferred and as manual, generated otherwise; the track of the first
\* category with a match for the preferred languages is selected, and the
\* second finder is called only after the first raised not-found.
C6_SelectionOrder ==
    chosen # NoTrack =>
        /\ chosen_kind = (IF HasMatch(PreferredKind) THEN PreferredKind ELSE OtherKind)
        /\ chosen = [kind |-> chosen_kind, language_code |-> FirstMatch(chosen_kind)]
        /\ \E k \in DOMAIN calls :
              /\ calls[k].op = "find_" \o PreferredKind
              /\ \A j \in CallsOf({"find_generated", "find_manual"}) : k <= j
        /\ \A k \in DOMAIN calls :
              calls[k].op = "find_" \o OtherKind =>
                  /\ k > 1
                  /\ calls[k - 1] = Call("find_" \o PreferredKind, "NoTranscriptFound")
        /\ Cardinality(CallsOf({"find_generated"})) <= 1
        /\ Cardinality(CallsOf({"find_manual"})) <= 1

C6_Witness ==
    /\ ~args.prefer_generated
    /\ language_preferences(args.languages) = <<De, En>>
    /\ transcripts = [manual |-> {En}, generated |-> {De}]
    /\ chosen = [kind |-> "manual", language_code |-> En]
    /\ pc = "fetch"

\* C7: when neither category has a track for the preferred languages the run
\* fails with the no-captions error and no fetch or translate call is made.
C7_NoCaptionsAvailable ==
    (transcripts # NoList /\ ~HasMatch("manual") /\ ~HasMatch("generated")) =>
        /\ CallsOf({"fetch"} \cup TranslationOps) = {}
        /\ result = NoSelection
        /\ pc # "find" =>
              /\ pc \in {"raised", "exit"}
              /\ raised = CliError("NoCaptionsAvailable")
              /\ Cardinality(CallsOf({"find_generated", "find_manual"})) = 2

C7_Witness ==
    /\ transcripts = [manual |-> {}, generated |-> {De}]
    /\ args.translate_to = De
    /\ raised = CliError("NoCaptionsAvailable")
    /\ exit_code = 1

\* C8: a failure of the base track's fetch() is fatal: fetch() was called once,
\* it is the last call made (no retry, no translate, also with a translation
\* target) and the run fails with the transcript-fetch error.
C8_BaseFetchFatal ==
    /\ Cardinality(CallsOf({"fetch"})) <= 1
    /\ \A k \in CallsOf({"fetch"}) :
          calls[k].outcome \in Exceptions =>
              /\ k = Len(calls)
              /\ pc \in {"raised", "exit"}
              /\ raised = CliError("TranscriptFetchFailed")
              /\ result = NoSelection

C8_Witness ==
    /\ calls # <<>>
    /\ calls[Len(calls)] = Call("fetch", "ConnectionError")
    /\ Truthy(translation_target(args.translate_to))
    /\ exit_code = 1

\* the stage of fetch_transcript a call belongs to
Stage(op) ==
    CASE op \in {"list", "sleep"} -> 1
      [] op \in {"find_generated", "find_manual"} -> 2
      [] op = "fetch" -> 3
      [] op = "translate" -> 4
      [] op = "translated_fetch" -> 5

CountOf(ops) == Cardinality(CallsOf(ops))

\* the call made just before call k succeeded and was one of ops
FollowsSuccessOf(k, ops) ==
    /\ k > 1
    /\ calls[k - 1].op \in ops
    /\ calls[k - 1].outcome = "ok"

CallsInOrder ==
    /\ \A i, j \in DOMAIN calls : i < j => Stage(calls[i].op) <= Stage(calls[j].op)
    /\ CountOf({"list"}) <= args.retries + 1
    /\ \A op \in {"find_generated", "find_manual", "fetch", "translate", "translated_fetch"} :
          CountOf({op}) <= 1
    /\ \A k \in DOMAIN calls :
          /\ calls[k].op \in {"find_generated", "find_manual"} =>
                \/ FollowsSuccessOf(k, {"list"})
                \/ /\ k > 1
                   /\ calls[k - 1].op \in {"find_generated", "find_manual"}
                   /\ calls[k - 1].outcome = "NoTranscriptFound"
          /\ calls[k].op = "fetch" => FollowsSuccessOf(k, {"find_generated", "find_manual"})
          /\ calls[k].op = "translate" =>
                /\ FollowsSuccessOf(k, {"fetch"})
                /\ Truthy(translation_target(args.translate_to))
          /\ calls[k].op = "translated_fetch" => FollowsSuccessOf(k, {"translate"})

\* C25: the calls of fetch_transcript to the captions capability come in the
\* order list (at most r + 1 calls), finders (at most one call per category),
\* base fetch, translate, translated fetch, no call of an earlier stage after
\* one of a later stage; translate is called only with a target and directly
\* after the base fetch succeeded, the translated fetch only directly after
\* translate succeeded; a run that returns a selection has called list at
\* least once and the base fetch exactly once, successfully.
C25_CallOrder ==
    /\ CallsInOrder
    /\ result # NoSelection =>
          /\ CountOf({"list"}) \in 1..(args.retries + 1)
          /\ CountOf({"fetch"}) = 1
          /\ \E k \in CallsOf({"fetch"}) : calls[k].outcome = "ok"
          /\ result.kind = "translated" =>
                /\ CountOf({"translate"}) = 1
                /\ CountOf({"translated_fetch"}) = 1

C25_Witness ==
    /\ pc = "returned"
    /\ result.kind = "translated"
    /\ Len(calls) = 8
    /\ [k \in 1..8 |-> calls[k].op]
         = <<"list", "sleep", "list", "find_manual", "find_generated", "fetch",
             "translate", "translated_fetch">>

-----------------------------------------------------------------------------
(* Properties of the renderers *)

HelloEntry == [text |-> <<"H", "e", "l", "l", "o", ",", " ", "w", "o", "r", "l", "d", ".">>, start |-> 0, duration |-> 20]
MusicEntry == [text |-> <<"[", "M", "u", "s", "i", "c", "]">>, start |-> 20, duration |-> 10]
ByeEntry == [text |-> <<"B", "y", "e">>, start |-> 50, duration |-> 10]
ApplauseEntry == [text |-> <<" ", "[", "A", "P", "P", "L", "A", "U", "S", "E", "]", "\n">>, start |-> 659, duration |-> 10]

\* the lines of the written text file
FileLines(c) ==
    LET pieces == Split(c, "\n", <<>>)
    IN  IF pieces[Len(pieces)] = <<>> THEN SubSeq(pieces, 1, Len(pieces) - 1)
        ELSE pieces

RECURSIVE Concat(_)
Concat(ss) == IF ss = <<>> THEN <<>> ELSE Head(ss) \o Concat(Tail(ss))

\* the text of a paragraph, styling and link target set aside
ParagraphText(par) == Concat([i \in DOMAIN par.runs |-> par.runs[i].text])

TitleLines == IF r_args.title # <<>> THEN 1 ELSE 0

\* the text file as a sequence of title, source, blank and content lines
TxtStructure ==
    LET fl == FileLines(content)
    IN  [i \in DOMAIN fl |->
            IF i <= TitleLines THEN [kind |-> "title", text |-> <<>>]
            ELSE IF i = TitleLines + 1 THEN [kind |-> "source", text |-> fl[i]]
            ELSE IF fl[i] = <<>> THEN [kind |-> "blank", text |-> <<>>]
            ELSE [kind |-> "content", text |-> fl[i]]]

\* the document as a sequence of title, source, blank and content paragraphs
DocxStructure ==
    [i \in DOMAIN paragraphs |->
        IF paragraphs[i].style = "Heading1" THEN [kind |-> "title", text |-> <<>>]
        ELSE IF paragraphs[i].runs = <<>> THEN [kind |-> "blank", text |-> <<>>]
        ELSE IF i = 2 THEN [kind |-> "source", text |-> ParagraphText(paragraphs[i])]
        ELSE [kind |-> "content", text |-> ParagraphText(paragraphs[i])]]

\* C9: for every entry sequence, every title (the empty one too) and every
\* combination of the flags, the written text file and the saved document have
\* the same sequence of header lines, blank separators and content lines.
C9_WritersSameStructure ==
    r_pc = "done" => TxtStructure = DocxStructure

\* number of entries each writer has processed
TxtProcessed ==
    CASE r_pc = "txt_header" -> 0
      [] r_pc = "txt_body" -> r_i - 1
      [] OTHER -> Len(r_args.entries)

DocxProcessed ==
    CASE r_pc = "docx_body" -> r_i - 1
      [] r_pc = "done" -> Len(r_args.entries)
      [] OTHER -> 0

\* entries among the first n that are exactly one stage-direction marker
MarkersIn(n) == { j \in 1..n : IsStageDirection(r_args.entries[j].text) }

\* entries among the first n that are no marker and have text left when cleaned
SpokenIn(n) ==
    { j \in 1..n : /\ ~IsStageDirection(r_args.entries[j].text)
                   /\ clean_caption_text(r_args.entries[j].text, FALSE) # <<>> }

NoDoubleBlank(blank) ==
    \A i \in DOMAIN blank : (i > 1 /\ blank[i]) => ~blank[i - 1]

TxtBlank == [i \in DOMAIN lines |-> lines[i] = <<>>]
DocxBlank == [i \in DOMAIN paragraphs |-> paragraphs[i].runs = <<>>]

\* position of the header separator in the list lines
TxtHeaderLen == TitleLines + 2

\* C10: with tags not kept an entry that is exactly one stage-direction marker
\* yields no content line and at most one blank separator; after any prefix of
\* the entries neither writer has emitted two blank separators in a row, so the
\* body never starts with a blank after the header separator.
C10_MarkersSuppressed ==
    /\ NoDoubleBlank(TxtBlank)
    /\ NoDoubleBlank(DocxBlank)
    /\ (r_pc # "txt_header" /\ ~r_args.keep_tags) =>
          /\ Cardinality({ i \in DOMAIN lines : i > TxtHeaderLen /\ ~TxtBlank[i] })
                = Cardinality(SpokenIn(TxtProcessed))
          /\ Cardinality({ i \in DOMAIN lines : i > TxtHeaderLen /\ TxtBlank[i] })
                <= Cardinality(MarkersIn(TxtProcessed))
    /\ (r_pc \in {"docx_body", "done"} /\ ~r_args.keep_tags) =>
          /\ Cardinality({ i \in DOMAIN paragraphs : i > 3 /\ ~DocxBlank[i] })
                = Cardinality(SpokenIn(DocxProcessed))
          /\ Cardinality({ i \in DOMAIN paragraphs : i > 3 /\ DocxBlank[i] })
                <= Cardinality(MarkersIn(DocxProcessed))

C10_Witness ==
    /\ r_pc = "done"
    /\ ~r_args.keep_tags
    /\ ~r_args.include_timestamps
    /\ r_args.title = Demo
    /\ r_args.entries = <<MusicEntry, HelloEntry, ApplauseEntry>>
    /\ SubSeq(lines, TxtHeaderLen, Len(lines)) = << <<>>, <<"H", "e", "l", "l", "o", ",", " ", "w", "o", "r", "l", "d", ".">>, <<>> >>
    /\ Len(paragraphs) = 5
    /\ ParagraphText(paragraphs[4]) = <<"H", "e", "l", "l", "o", ",", " ", "w", "o", "r", "l", "d", ".">>

\* the written text file ends with a non-blank line and exactly one newline
TxtEndsClean ==
    /\ Len(content) >= 2
    /\ content[Len(content)] = "\n"
    /\ content[Len(content) - 1] \notin Whitespace

\* the last paragraph of the document is no blank separator after a content paragraph
DocxEndsClean ==
    ~(Len(paragraphs) > 4 /\ DocxBlank[Len(paragraphs)] /\ ~DocxBlank[Len(paragraphs) - 1])

\* C11: for every entry sequence, in both formats the output has no trailing
\* blank separator after the last content line: the text file ends with its last
\* non-blank line followed by exactly one newline, and the last paragraph of the
\* document is not an empty separator paragraph following a content paragraph.
C11_NoTrailingSeparator ==
    r_pc = "done" => TxtEndsClean /\ DocxEndsClean

\* the content of the text file for the example of three entries
DemoFileLines ==
    << <<"T", "i", "t", "l", "e", ":", " ", "D", "e", "m", "o">>,
       <<"S", "o", "u", "r", "c", "e", ":", " ">> \o CanonicalUrl,
       <<>>,
       <<"0", "0", ":", "0", "0", " ", "-", " ", "H", "e", "l", "l", "o", ",", " ", "w", "o", "r", "l", "d", ".">>,
       <<>>,
       <<"0", "0", ":", "0", "5", " ", "-", " ", "B", "y", "e">> >>

\* every line followed by one newline
RECURSIVE Terminated(_)
Terminated(ls) == IF ls = <<>> THEN <<>> ELSE Head(ls) \o <<"\n">> \o Terminated(Tail(ls))

DemoRun ==
    /\ r_args.entries = <<HelloEntry, MusicEntry, ByeEntry>>
    /\ r_args.title = Demo
    /\ r_args.include_timestamps
    /\ ~r_args.keep_tags

\* C12: the text file of the entries "Hello, world." at 0s, "[Music]" at 2s and
\* "Bye" at 5s with title Demo, timestamps on and tags not kept is exactly the
\* six lines Title, Source, blank, "00:00 - Hello, world.", blank, "00:05 - Bye"
\* and one trailing newline; in general the Title line is there exactly when the
\* title is non-empty, the Source line is always there, and a body, if any, is
\* separated from the header by exactly one blank line.
C12_TxtRendering ==
    (r_pc \in {"docx_header", "docx_body", "done"}) =>
        LET fl == FileLines(content)
            h == TitleLines + 1
        IN  /\ DemoRun => content = Terminated(DemoFileLines)
            /\ Len(fl) >= h
            /\ r_args.title # <<>> => fl[1] = <<"T", "i", "t", "l", "e", ":", " ">> \o r_args.title
            /\ fl[h] = <<"S", "o", "u", "r", "c", "e", ":", " ">> \o r_args.canonical_url
            /\ Len(fl) > h => /\ Len(fl) >= h + 2
                              /\ fl[h + 1] = <<>>
                              /\ fl[h + 2] # <<>>

C12_Witness ==
    /\ r_pc = "done"
    /\ DemoRun
    /\ content = Terminated(DemoFileLines)

\* the content line of an entry with text left when cleaned
ContentLineOf(entry) ==
    LET text == clean_caption_text(entry.text, r_args.keep_tags)
    IN  IF r_args.include_timestamps
        THEN format_timestamp(entry.start) \o <<" ", "-", " ">> \o text
        ELSE text

\* the content lines of the first n entries: one for each entry with text left
\* when cleaned, in the order of the entries
ExpectedContent(n) ==
    LET voiced == SelectSeq(SubSeq(r_args.entries, 1, n),
                            LAMBDA e : clean_caption_text(e.text, r_args.keep_tags) # <<>>)
    IN  [i \in DOMAIN voiced |-> ContentLineOf(voiced[i])]

NonBlank(ls) == SelectSeq(ls, LAMBDA l : l # <<>>)

\* the non-blank lines and paragraphs after the header
TxtContentLines == NonBlank(SubSeq(lines, TxtHeaderLen + 1, Len(lines)))
FileContentLines == NonBlank(SubSeq(FileLines(content), TxtHeaderLen + 1, Len(FileLines(content))))
DocxContentLines ==
    NonBlank([i \in 1..(Len(paragraphs) - 3) |-> ParagraphText(paragraphs[i + 3])])

\* an entry with nothing left when cleaned that is not exactly one marker
Silent(entry) ==
    /\ clean_caption_text(entry.text, r_args.keep_tags) = <<>>
    /\ ~IsStageDirection(entry.text)

\* the written file and the saved document
ContentIsVoicedEntries ==
    /\ r_pc = "docx_header" => FileContentLines = ExpectedContent(Len(r_args.entries))
    /\ r_pc = "done" =>
          /\ DocxContentLines = ExpectedContent(Len(r_args.entries))
          /\ \A i \in DOMAIN paragraphs :
                (i > 3 /\ ~DocxBlank[i] /\ r_args.include_timestamps) =>
                    /\ Len(paragraphs[i].runs) = 2
                    /\ Len(paragraphs[i].runs[1].text) \in {8, 11}

\* a step of a writer's loop on a silent entry changes nothing the writer
\* holds, and the written file is not touched by the document writer
SilentEntryEmitsNothing ==
    /\ (r_pc \in {"txt_body", "docx_body"} /\ r_i <= Len(r_args.entries)
          /\ Silent(r_args.entries[r_i])) =>
              (lines' = lines /\ paragraphs' = paragraphs /\ previous_blank' = previous_blank)
    /\ r_pc \in {"docx_header", "docx_body"} => content' = content

\* C22: in both writers the content lines of the body are the entries with text
\* left when cleaned, one line each and in the order of the entries; with
\* timestamps on a content line is the formatted start time of its entry,
\* " - " and the cleaned text; an entry with nothing left when cleaned that is
\* not exactly one marker adds no line and no separator.
C22_ContentLines ==
    /\ []ContentIsVoicedEntries
    /\ [][SilentEntryEmitsNothing]_vars

\* "[Music][Music]" with tags dropped and an absent text are silent entries
\* between two spoken ones, the second past the hour
C22_Witness ==
    /\ r_pc = "done"
    /\ ~r_args.keep_tags
    /\ r_args.include_timestamps
    /\ Len(r_args.entries) = 3
    /\ r_args.entries[1] = ByeEntry
    /\ Silent(r_args.entries[2])
    /\ r_args.entries[2].text # None
    /\ r_args.entries[3].start = 36610
    /\ FileContentLines = << <<"0", "0", ":", "0", "5", " ", "-", " ", "B", "y", "e">>,
                             <<"0", "1", ":", "0", "1", ":", "0", "1", " ", "-", " ", "a", ".">> >>
    /\ DocxContentLines = FileContentLines

\* the entries that have a content line, in order
VoicedEntries ==
    SelectSeq(r_args.entries, LAMBDA e : clean_caption_text(e.text, r_args.keep_tags) # <<>>)

\* blank is the header separator followed by the body, TRUE where the line or
\* paragraph is a blank separator: the content line of a kept marker has
\* exactly one blank before it, the content line of any other entry has none
\* (but the header separator), and a blank has a content line after it
SeparatorsAtMarkers(blank) ==
    \A i \in 2..Len(blank) :
        LET rank == Cardinality({ j \in 2..i : ~blank[j] })
        IN  IF blank[i]
            THEN i < Len(blank) /\ ~blank[i + 1]
            ELSE IF IsStageDirection(VoicedEntries[rank].text)
                 THEN blank[i - 1] /\ (i > 2 => ~blank[i - 2])
                 ELSE i > 2 => ~blank[i - 1]

FileBlank == [i \in DOMAIN FileLines(content) |-> FileLines(content)[i] = <<>>]

From(s, i) == SubSeq(s, i, Len(s))

KeptMarkersSeparated ==
    r_args.keep_tags =>
        /\ r_pc = "docx_header" =>
              /\ SeparatorsAtMarkers(From(TxtBlank, TxtHeaderLen))
              /\ SeparatorsAtMarkers(From(FileBlank, TxtHeaderLen))
        /\ r_pc = "done" => SeparatorsAtMarkers(From(DocxBlank, 3))

\* what one step of a writer's loop adds for the entry, given the lines or
\* paragraph texts before and after: a kept marker adds its content line, with
\* one blank before it unless a blank is there already, and nothing after it;
\* any other entry adds at most its content line
MarkerStep(before, after, entry) ==
    IF IsStageDirection(entry.text)
    THEN after = before
                    \o (IF before[Len(before)] = <<>> THEN <<>> ELSE << <<>> >>)
                    \o << ContentLineOf(entry) >>
    ELSE IF clean_caption_text(entry.text, r_args.keep_tags) = <<>>
         THEN after = before
         ELSE after = Append(before, ContentLineOf(entry))

ParagraphTexts(ps) == [i \in DOMAIN ps |-> ParagraphText(ps[i])]

KeptMarkerSteps ==
    (r_args.keep_tags /\ r_i <= Len(r_args.entries)) =>
        /\ r_pc = "txt_body" => MarkerStep(lines, lines', r_args.entries[r_i])
        /\ r_pc = "docx_body" =>
              /\ MarkerStep(ParagraphTexts(paragraphs), ParagraphTexts(paragraphs'),
                            r_args.entries[r_i])
              /\ previous_blank' = (paragraphs'[Len(paragraphs')].runs = <<>>)

\* C23: with tags kept, in both writers the content line of an entry that is
\* exactly one stage-direction marker comes directly after exactly one blank
\* separator (the header separator or a blank already there, never a second
\* one) and the entry puts no blank after its line; an entry that is not
\* exactly one marker adds no blank separator.
C23_KeptMarkersSeparated ==
    /\ []KeptMarkersSeparated
    /\ [][KeptMarkerSteps]_vars

\* a kept marker first in the body, a spoken line after it and a second marker
C23_Witness ==
    /\ r_pc = "done"
    /\ r_args.keep_tags
    /\ ~r_args.include_timestamps
    /\ r_args.entries = <<MusicEntry, ByeEntry, ApplauseEntry>>
    /\ From(lines, TxtHeaderLen + 1)
         = << <<"[", "M", "u", "s", "i", "c", "]">>, <<"B", "y", "e">>, <<>>,
              <<"[", "A", "P", "P", "L", "A", "U", "S", "E", "]">> >>
    /\ From(ParagraphTexts(paragraphs), 4) = From(lines, TxtHeaderLen + 1)

-----------------------------------------------------------------------------
(* Properties of format_timestamp *)

DigitValue(c) == (CHOOSE i \in DOMAIN DecimalDigits : DecimalDigits[i] = c) - 1

\* the number written by a string of decimal digits
RECURSIVE Number(_)
Number(ds) ==
    IF ds = <<>> THEN 0
    ELSE 10 * Number(SubSeq(ds, 1, Len(ds) - 1)) + DigitValue(ds[Len(ds)])

IsDigits(ds) == \A i \in DOMAIN ds : \E j \in DOMAIN DecimalDigits : DecimalDigits[j] = ds[i]

\* C13: format_timestamp returns a zero-padded clock string: 00:00 for a
\* negative time; MM:SS with MM = s div 60 and SS = s mod 60 for a time of s
\* whole seconds, 0 <= s < 3600; HH:MM:SS with HH = s div 3600,
\* MM = (s mod 3600) div 60, SS = s mod 60 for s >= 3600; so 0 gives 00:00,
\* 65 gives 01:05 and 3661 gives 01:01:01; MM and SS are always in 0..59.
C13_TimestampMapping ==
    f_pc = "returned" =>
        LET s == f_arg \div 10
            parts == Split(f_ret, ":", <<>>)
            n == Len(parts)
        IN  /\ n \in {2, 3}
            /\ \A i \in 1..n : IsDigits(parts[i]) /\ Len(parts[i]) >= 2
            /\ Len(parts[n]) = 2 /\ Len(parts[n - 1]) = 2
            /\ Number(parts[n]) \in 0..59 /\ Number(parts[n - 1]) \in 0..59
            /\ f_arg < 0 => f_ret = <<"0", "0", ":", "0", "0">>
            /\ (f_arg >= 0 /\ s < 3600) =>
                  /\ n = 2
                  /\ Number(parts[1]) = s \div 60
                  /\ Number(parts[2]) = s % 60
            /\ s >= 3600 =>
                  /\ n = 3
                  /\ Number(parts[1]) = s \div 3600
                  /\ Number(parts[2]) = (s % 3600) \div 60
                  /\ Number(parts[3]) = s % 60
            /\ f_arg = 0 => f_ret = <<"0", "0", ":", "0", "0">>
            /\ f_arg = 650 => f_ret = <<"0", "1", ":", "0", "5">>
            /\ f_arg = 36610 => f_ret = <<"0", "1", ":", "0", "1", ":", "0", "1">>

C13_Witness ==
    /\ f_pc = "returned"
    /\ f_arg = 36610
    /\ f_ret = <<"0", "1", ":", "0", "1", ":", "0", "1">>

-----------------------------------------------------------------------------
(* Properties of extract_video_id *)

C15_ValidOrInvalidReference ==
    f_pc = "returned" =>
        /\ f_ret.ok =>
              /\ Len(f_ret.video_id) = 11
              /\ \A i \in 1..Len(f_ret.video_id) :
                    f_ret.video_id[i] \in AsciiLetters \cup AsciiDigits \cup {"_", "-"}
              /\ f_ret.canonical_url = <<"h", "t", "t", "p", "s", ":", "/", "/", "w", "w", "w", ".", "y", "o", "u", "t", "u", "b", "e", ".", "c", "o", "m", "/", "w", "a", "t", "c", "h", "?", "v", "=">> \o f_ret.video_id
        /\ ~f_ret.ok => f_ret.error.class = "CliError"
        /\ f_arg.kind \in {"empty", "host", "no_segment", "no_v", "no_second"} => ~f_ret.ok
        /\ (/\ f_arg.kind = "refers"
            /\ ~VIDEO_ID_PATTERN(f_arg.id)
            /\ \A i \in 1..Len(f_arg.id) : f_arg.id[i] # "%") => ~f_ret.ok

C15_Witness ==
    /\ f_pc = "returned"
    /\ f_arg.url_or_id = <<"h", "t", "t", "p", "s", ":", "/", "/", "w", "w", "w", ".", "y", "o", "u", "t", "u", "b", "e", ".", "c", "o", "m", "/", "s", "h", "o", "r", "t", "s">>
    /\ f_arg.kind = "no_second"
    /\ f_ret = [ok |-> FALSE, error |-> [class |-> "CliError", msg |-> "UnableToLocate"]]

-----------------------------------------------------------------------------
(* Properties of sanitize_filename *)

\* C16: for every title, with or without the transliteration library, the name
\* sanitize_filename returns contains none of \ / : * ? " < > |, has at most
\* 200 characters unless the reserved-name suffix was added, and is not, in any
\* letter case, one of the reserved device names.
C16_SafeFilename ==
    f_pc = "returned" =>
        /\ \A i \in 1..Len(f_ret) : f_ret[i] \notin {"\\", "/", ":", "*", "?", "\"", "<", ">", "|"}
        /\ Len(f_ret) <= 200 \/ (Len(f_ret) = 201 /\ f_ret[201] = "_")
        /\ ToUpper(f_ret) \notin windows_reserved

\* C17: sanitize_filename applied to a name it returned gives that name back.
C17_Idempotent ==
    f_pc = "again" => f_again = f_ret

-----------------------------------------------------------------------------
(* Properties of main *)

\* the reference was resolved, a transcript obtained and the file written
RunSucceeded ==
    /\ extract_video_id(args.url_or_id).ok
    /\ result # NoSelection
    /\ file_written
    /\ raised = NoExc

ExitCodeOfRun ==
    /\ exit_code \in {0, 1, 130}
    /\ exit_code = 0 <=> RunSucceeded
    /\ raised.class = "KeyboardInterrupt" => exit_code = 130
    /\ raised.class \notin {"none", "KeyboardInterrupt"} => exit_code = 1

\* C18 as stated: every run ends with exit code 0, 1 or 130: 0 exactly when the
\* reference was resolved, a transcript obtained and the output file written,
\* 130 on an interrupt, 1 on every other error.
C18_ExitCodes ==
    pc = "exit" => ExitCodeOfRun

\* C18 amended: every run whose command line was parsed ends with exit code 0,
\* 1 or 130: 0 exactly when the reference was resolved, a transcript obtained
\* and the output file written, 130 on an interrupt, 1 on every other error;
\* no exit code is set before the run ends.
C18_ExitCodesOnceParsed ==
    /\ (pc = "exit" /\ raised.class # "SystemExit") => ExitCodeOfRun
    /\ pc # "exit" => exit_code = -1

C18_Witness ==
    /\ pc = "exit"
    /\ exit_code = 0
    /\ RunSucceeded
    /\ result.kind = "translated"
    /\ Len(calls) > 4

\* the steps of the run that block
BlockingSteps == {"probe", "list", "sleep", "fetch", "translate", "translated_fetch", "write"}

Interrupted == raised.class = "KeyboardInterrupt"

InterruptPropagates ==
    /\ \A k \in DOMAIN calls :
          calls[k].outcome = "KeyboardInterrupt" => (k = Len(calls) /\ Interrupted)
    /\ Interrupted =>
          /\ pc \in {"raised", "exit"}
          /\ raised.msg \in BlockingSteps
          /\ pc = "exit" => exit_code = 130
          /\ raised.msg # "write" => (result = NoSelection /\ ~file_written)
    /\ exit_code = 130 => Interrupted

\* C19: an interrupt during a blocking step (title probe, list call, backoff
\* sleep, base fetch, translate call, translated fetch, file write) is the last
\* thing the step does: no further call is made, no selection is returned in
\* its place, the only step left is the exit with code 130, and code 130 is
\* given for nothing else.
C19_InterruptExits130 ==
    /\ []InterruptPropagates
    /\ [][(Interrupted /\ pc = "raised") => (pc' = "exit" /\ exit_code' = 130)]_vars

C19_Witness ==
    /\ pc = "exit"
    /\ exit_code = 130
    /\ raised.msg = "translate"
    /\ base_entries # <<>>
    /\ calls[Len(calls)] = Call("translate", "KeyboardInterrupt")

\* C20: nothing is written before fetch_transcript has returned a selection:
\* no output path, no directory and no file exist while the run is before the
\* writer; a run that failed before the writer or on the missing python-docx
\* import has not touched the output file; a failure raised while writing ends
\* the run with a non-zero exit code, and exit code 0 means the file is written.
C20_NoOutputBeforeWriter ==
    /\ (output_path # <<>> \/ dir_made \/ file_written) =>
          /\ extract_video_id(args.url_or_id).ok
          /\ result # NoSelection
          /\ pc \in {"write", "raised", "exit"}
    /\ file_written =>
          \/ raised = NoExc
          \/ raised.msg = "write" /\ raised.class \in {"OSError", "KeyboardInterrupt"}
    /\ (pc = "exit" /\ raised.msg = "write") => exit_code \in {1, 130}
    /\ (pc = "exit" /\ exit_code = 0 /\ raised = NoExc) => file_written

C20_Witness ==
    /\ pc = "exit"
    /\ raised = CliError("MissingDependency")
    /\ exit_code = 1
    /\ dir_made
    /\ ~file_written

-----------------------------------------------------------------------------
(* Properties of the backoff *)

\* the number of list calls among the first k calls
ListCallsUpTo(k) == Cardinality({j \in CallsOf({"list"}) : j <= k})

\* the number of sleep calls among the first k calls
SleepCallsUpTo(k) == Cardinality({j \in CallsOf({"sleep"}) : j <= k})

\* min(5.0, 1.5 * n) seconds, in tenths of a second
CappedLinear(n) == IF n <= 3 THEN 15 * n ELSE 50

\* C21: the n-th sleep of the retry loop lasts min(5.0, 1.5 * n) seconds and
\* directly follows the n-th list call, which failed transiently and was not
\* the last allowed attempt; such a failed attempt is followed by a sleep and
\* by nothing else; a list call follows only a sleep; and nothing sleeps after
\* the last allowed attempt, a successful one or one that is not retried.
C21_CappedLinearBackoff ==
    /\ Len(sleeps) = Cardinality(CallsOf({"sleep"}))
    /\ \A n \in DOMAIN sleeps : sleeps[n] = CappedLinear(n)
    /\ \A k \in CallsOf({"sleep"}) :
          /\ k > 1
          /\ TransientListFailure(k - 1)
          /\ ListCallsUpTo(k) = SleepCallsUpTo(k)
          /\ ListCallsUpTo(k) <= args.retries
    /\ \A k \in CallsOf({"list"}) :
          /\ k > 1 => calls[k - 1] = Call("sleep", "ok")
          /\ (TransientListFailure(k) /\ ListCallsUpTo(k) <= args.retries) =>
                IF k = Len(calls) THEN pc = "sleep" ELSE calls[k + 1].op = "sleep"
          /\ ~(TransientListFailure(k) /\ ListCallsUpTo(k) <= args.retries) =>
                (k < Len(calls) => calls[k + 1].op # "sleep") /\ pc # "sleep"

C21_Witness ==
    /\ args.retries = 5
    /\ sleeps = <<15, 30, 45, 50, 50>>
    /\ Len(calls) = 11
    /\ calls[11] = Call("list", "YouTubeRequestFailed")
    /\ raised = CliError("TranscriptListFailed")

-----------------------------------------------------------------------------
(* Properties of clean_caption_text *)

\* s holds a bracketed stage-direction marker, in any letter case
HasMarker(s) == \E i \in DOMAIN s : MatchLenAt(s, i) > 0

\* the whitespace of s is single spaces inside the text, none before punctuation
Tidy(s) ==
    /\ \A i \in DOMAIN s : s[i] \in Whitespace =>
          /\ s[i] = " "
          /\ i > 1 /\ i < Len(s)
          /\ s[i + 1] \notin Whitespace \cup Punctuation

\* C24: with tags not kept clean_caption_text returns a text without any
\* bracketed stage-direction marker, also when deleting a marker joins the
\* characters around it into a new one, and without newline, run of whitespace,
\* whitespace before , . ! ? ; : or whitespace at either end; an absent text
\* gives the empty text.
C24_CleanedText ==
    (f_pc = "returned" /\ ~f_arg.keep_tags) =>
        /\ ~HasMarker(f_ret)
        /\ Tidy(f_ret)
        /\ f_arg.text = None => f_ret = <<>>

====
